---- MODULE Spec2Model ----
(***************************************************************************)
(* Model of @wristband/typescript-jwt: the LRU cache with TTL              *)
(* (src/utils/cache.ts), the JWKS client (src/jwks-client.ts), the         *)
(* algorithm allowlist check (src/utils/crypto.ts) and the validation      *)
(* pipeline (src/validator.ts).                                            *)
(*                                                                         *)
(* JavaScript values are records tagged with their type.  Strings that the *)
(* code inspects character by character (algorithm names) are sequences of *)
(* one-character strings; strings that are only compared for identity      *)
(* (issuer, kid, cache keys) are TLA+ strings.                             *)
(***************************************************************************)
EXTENDS Integers, Sequences, FiniteSets, Bags, TLC

VARIABLES
    a_alg,        \* SpecAlg: the algorithm argument of validateAlgorithm
    a_allowed,    \* SpecAlg: the allowedAlgorithms argument
    a_done,       \* SpecAlg: the call has returned
    a_result,     \* SpecAlg: the value it returned
    p_call,       \* SpecCalls: a call of a synchronous function: its arguments and its outcome
    m_cache,      \* SpecTwin: the instance of the Map-based LRUCache
    now,          \* Date.now(), in milliseconds
    cache,        \* the LRUCache instance (the JWKS client's, or a bare one)
    c_last,       \* SpecCache: the last public cache operation and its result
    c_hist,       \* SpecCache: history of the cache's use (what was touched, what each set inserted)
    algorithms,   \* WristbandJwtValidatorImpl.algorithms
    wiring,       \* "real": JWKSClient and Web Crypto; "double": both replaced by test doubles
    v_pc,         \* position of the validate() call
    v_token,      \* its argument
    v_now,        \* the Date.now() it read
    v_frame,      \* its locals while it is suspended (parts, payload, kid)
    v_key,        \* publicKey, once getSigningKey resolved
    v_result,     \* the JwtValidationResult it returned
    v_raised,     \* whether an exception left validate()
    v_log,        \* collaborator calls made by this validate() call, in order
    v_prev,       \* SpecTwice: the earlier validate() call of the same token and what it returned
    g_pc,         \* position of the getSigningKey() call
    g_kid,        \* its argument
    g_attempt,    \* fetchJwksWithRetry: the loop variable attempt
    g_outcome,    \* how getSigningKey settled (resolved value or rejection)
    fetches,      \* number of fetch(jwksUri) calls issued so far
    g_hist,       \* history of the client's use (calls made, what the current call did)
    g_parked      \* SpecConc: the other getSigningKey() calls in flight, each with its locals

algVars    == <<a_alg, a_allowed, a_done, a_result, p_call, m_cache>>
cacheVars  == <<now, cache, c_last, c_hist>>
validVars  == <<algorithms, wiring, v_pc, v_token, v_now, v_frame, v_key,
                v_result, v_raised, v_log, v_prev>>
clientVars == <<g_pc, g_kid, g_attempt, g_outcome, fetches, g_hist, g_parked>>
vars       == <<algVars, cacheVars, validVars, clientVars>>

(***************************************************************************)
(* Bounds                                                                  *)
(***************************************************************************)
MaxAllow  == 2      \* longest allowlist handed to validateAlgorithm
MaxSize   == 2      \* maxSize of the cache under test
MaxSec    == 1      \* SpecValidate: the clock runs over [0, MaxSec * 1000 + 1] ms
MaxTime   == 2      \* SpecCache: the clock runs over 0..MaxTime ms
MaxCalls  == 2      \* SpecClient, SpecConc: number of getSigningKey calls made
MaxFlight == 2      \* SpecConc: number of getSigningKey calls in flight at a time
MaxOps == 4         \* SpecTwin: number of operations made on the two caches
MaxClears == 1      \* SpecClear: number of clear() calls made on the client
MaxHeaders == 2     \* SpecCalls: longest array of Authorization header values
MaxLenBytes == 2    \* SpecCalls: lengths and key sizes run up to about 256^MaxLenBytes and 128 * MaxLenBytes

(***************************************************************************)
(* JavaScript values                                                       *)
(***************************************************************************)
Undefined == [t |-> "undefined"]
Null      == [t |-> "null"]
Str(s)    == [t |-> "string", s |-> s]
Num(n)    == [t |-> "number", n |-> n]
\* the number n + 0.5
Frac(n)   == [t |-> "number", n |-> n, half |-> TRUE]

IsString(v) == v.t = "string"

\* ToBoolean for values whose string payload is a TLA+ string
Truthy(v) ==
    CASE v.t = "undefined" -> FALSE
      [] v.t = "null"      -> FALSE
      [] v.t = "string"    -> v.s # ""
      [] v.t = "number"    -> v.n # 0 \/ "half" \in DOMAIN v
      [] OTHER             -> TRUE

\* Number.isInteger
isInteger(v) == v.t = "number" /\ "half" \notin DOMAIN v

\* v <= 0 for a number v
leqZero(v) == IF "half" \in DOMAIN v THEN v.n < 0 ELSE v.n <= 0

(***************************************************************************)
(* Character strings: String.prototype.trim / toLowerCase / toUpperCase    *)
(***************************************************************************)
LowerOf == [c \in {"R", "S", "H", "N", "O", "E"} |->
              CASE c = "R" -> "r" [] c = "S" -> "s" [] c = "H" -> "h"
                [] c = "N" -> "n" [] c = "O" -> "o" [] c = "E" -> "e"]
UpperOf == [c \in {"r", "s", "h", "n", "o", "e"} |->
              CASE c = "r" -> "R" [] c = "s" -> "S" [] c = "h" -> "H"
                [] c = "n" -> "N" [] c = "o" -> "O" [] c = "e" -> "E"]

IsSpace(c) == c \in {" ", "\t"}

toLowerCase(s) == [i \in 1..Len(s) |-> IF s[i] \in DOMAIN LowerOf THEN LowerOf[s[i]] ELSE s[i]]
toUpperCase(s) == [i \in 1..Len(s) |-> IF s[i] \in DOMAIN UpperOf THEN UpperOf[s[i]] ELSE s[i]]

RECURSIVE trimStart(_)
trimStart(s) == IF s # <<>> /\ IsSpace(Head(s)) THEN trimStart(Tail(s)) ELSE s

RECURSIVE trimEnd(_)
trimEnd(s) == IF s # <<>> /\ IsSpace(s[Len(s)]) THEN trimEnd(SubSeq(s, 1, Len(s) - 1)) ELSE s

trim(s) == trimEnd(trimStart(s))

\* Array.prototype.includes
includes(arr, x) == \E i \in 1..Len(arr) : arr[i] = x

(***************************************************************************)
(* validateAlgorithm (utils/crypto.ts)                                     *)
(***************************************************************************)
NotArray == [t |-> "notArray"]
Arr(items) == [t |-> "array", items |-> items]

\* alg?.trim() as a filter predicate over allowlist entries
entryKept(e) == IsString(e) /\ trim(e.s) # <<>>

\* allowedAlgorithms.filter(alg => alg?.trim())
RECURSIVE filterKept(_)
filterKept(arr) ==
    IF arr = <<>> THEN <<>>
    ELSE IF entryKept(Head(arr)) THEN <<Head(arr)>> \o filterKept(Tail(arr))
         ELSE filterKept(Tail(arr))

NONE == <<"n", "o", "n", "e">>

\* mutant: the early rejection of "none" is missing
validateAlgorithm_noNoneCheck(algorithm, allowedAlgorithms) ==
    IF ~IsString(algorithm) \/ trim(algorithm.s) = <<>> THEN FALSE
    ELSE IF allowedAlgorithms.t # "array" THEN FALSE
    ELSE LET normalizedAlg == toLowerCase(algorithm.s)
             kept == filterKept(allowedAlgorithms.items)
             normalizedAllowed == [i \in 1..Len(kept) |-> toLowerCase(kept[i].s)]
         IN includes(normalizedAllowed, normalizedAlg)

validateAlgorithm(algorithm, allowedAlgorithms) ==
    IF ~IsString(algorithm) \/ trim(algorithm.s) = <<>> THEN FALSE
    ELSE IF allowedAlgorithms.t # "array" THEN FALSE
    ELSE LET normalizedAlg == toLowerCase(algorithm.s)
             kept == filterKept(allowedAlgorithms.items)
             normalizedAllowed == [i \in 1..Len(kept) |-> toLowerCase(kept[i].s)]
         IN IF normalizedAlg = NONE THEN FALSE
            ELSE includes(normalizedAllowed, normalizedAlg)

(***************************************************************************)
(* Errors, promise outcomes, messages                                      *)
(***************************************************************************)
\* A message built from a template: its fixed text and the interpolated values
Msg(text, args) == [text |-> text, args |-> args]

Error(message) == [t |-> "Error", message |-> message]
instanceofError(e) == e.t = "Error"

Ok(v)    == [kind |-> "ok", value |-> v]
Throw(e) == [kind |-> "throw", error |-> e]

(***************************************************************************)
(* LRUCache (utils/cache.ts, the linked-list implementation)               *)
(*                                                                         *)
(* The heap of LRUNode objects is the function cache.nodes from node ids   *)
(* to node records; HEAD and TAIL are the two sentinel nodes, NULL is the  *)
(* null reference.  cache.map is the Map<string, LRUNode>.  A node that is *)
(* dropped from the map is garbage and leaves the heap.                    *)
(***************************************************************************)
HEAD == 0
TAIL == 1
NULL == 0 - 1

EmptyMap == [k \in {} |-> NULL]

LRUNode(key, value, lastAccessed, prev, next) ==
    [key |-> key, value |-> value, lastAccessed |-> lastAccessed, prev |-> prev, next |-> next]

\* the body of the constructor after its argument checks: this.ttl holds ttl
NewLRUCache(maxSize, ttl) ==
    [map     |-> EmptyMap,
     nodes   |-> (HEAD :> LRUNode("", Str(""), 0, NULL, TAIL)) @@ (TAIL :> LRUNode("", Str(""), 0, HEAD, NULL)),
     maxSize |-> maxSize,
     ttl     |-> ttl]

\* mutant: the ttl option is not checked
LRUCacheNew_ttlUnchecked(options) ==
    IF ~Truthy(options.maxSize) \/ ~isInteger(options.maxSize) \/ leqZero(options.maxSize)
    THEN Throw(Error(Msg("maxSize must be a positive integer", <<>>)))
    ELSE Ok(NewLRUCache(options.maxSize.n,
                        IF options.ttl.t \in {"undefined", "null"} THEN Undefined ELSE options.ttl))

\* new LRUCache(options): the instance, or the Error the constructor throws
LRUCacheNew(options) ==
    IF ~Truthy(options.maxSize) \/ ~isInteger(options.maxSize) \/ leqZero(options.maxSize)
    THEN Throw(Error(Msg("maxSize must be a positive integer", <<>>)))
    ELSE IF Truthy(options.ttl) /\ (~isInteger(options.ttl) \/ leqZero(options.ttl))
    THEN Throw(Error(Msg("ttl must be a positive integer (if specified)", <<>>)))
    ELSE Ok(NewLRUCache(options.maxSize.n,
                        IF options.ttl.t \in {"undefined", "null"} THEN Undefined ELSE options.ttl))

\* the id of a newly allocated node object
FreshNode(c) == CHOOSE id \in 2..(Cardinality(DOMAIN c.nodes) + 2) : id \notin DOMAIN c.nodes

mapHas(c, key) == key \in DOMAIN c.map

\* Map.prototype.delete; the node the entry referred to becomes garbage
mapDelete(c, key) ==
    IF ~mapHas(c, key) THEN c
    ELSE [c EXCEPT !.map   = [k \in (DOMAIN c.map) \ {key} |-> c.map[k]],
                   !.nodes = [i \in (DOMAIN c.nodes) \ {c.map[key]} |-> c.nodes[i]]]

removeNode(nodes, node) ==
    LET p  == nodes[node].prev
        n  == nodes[node].next
        n1 == IF p # NULL THEN [nodes EXCEPT ![p].next = n] ELSE nodes
    IN IF n # NULL THEN [n1 EXCEPT ![n].prev = p] ELSE n1

\* mutant: the node that was first is not linked back to the new one
addToFront_noBackLink(nodes, node) ==
    LET first == nodes[HEAD].next
        n1 == [nodes EXCEPT ![node].prev = HEAD, ![node].next = first]
    IN [n1 EXCEPT ![HEAD].next = node]

addToFront(nodes, node) ==
    LET first == nodes[HEAD].next
        n1 == [nodes EXCEPT ![node].prev = HEAD, ![node].next = first]
        n2 == IF first # NULL THEN [n1 EXCEPT ![first].prev = node] ELSE n1
    IN [n2 EXCEPT ![HEAD].next = node]

\* mutant: the node keeps its place in the list
moveToFront_stays(nodes, node) == nodes

moveToFront(nodes, node) == addToFront(removeNode(nodes, node), node)

\* mutant: the eviction removes nothing
evictLeastRecentlyUsed_none(c) == c

evictLeastRecentlyUsed(c) ==
    LET lru == c.nodes[TAIL].prev
    IN IF lru # NULL /\ lru # HEAD
       THEN mapDelete([c EXCEPT !.nodes = removeNode(c.nodes, lru)], c.nodes[lru].key)
       ELSE c

\* mutant: an entry expires as soon as its age reaches ttl
expired_inclusive(c, node, t) == Truthy(c.ttl) /\ t - c.nodes[node].lastAccessed >= c.ttl.n

\* mutant: a cache without ttl falls back to a ttl of 1
expired_defaultTtl(c, node, t) ==
    t - c.nodes[node].lastAccessed > (IF Truthy(c.ttl) THEN c.ttl.n ELSE 1)

\* this.ttl && Date.now() - node.lastAccessed > this.ttl
expired(c, node, t) == Truthy(c.ttl) /\ t - c.nodes[node].lastAccessed > c.ttl.n

\* Each public operation yields the cache after the call and the value returned.

\* mutant: a hit moves the node to the front and leaves lastAccessed as it was
cacheGet_noRefresh(c, key, t) ==
    IF ~mapHas(c, key) THEN [c |-> c, r |-> Undefined]
    ELSE LET node == c.map[key] IN
         IF expired(c, node, t)
         THEN [c |-> mapDelete([c EXCEPT !.nodes = removeNode(c.nodes, node)], key),
               r |-> Undefined]
         ELSE [c |-> [c EXCEPT !.nodes = moveToFront(c.nodes, node)],
               r |-> c.nodes[node].value]

\* mutant: a hit updates lastAccessed and leaves the node where it is
cacheGet_stampOnly(c, key, t) ==
    IF ~mapHas(c, key) THEN [c |-> c, r |-> Undefined]
    ELSE LET node == c.map[key] IN
         IF expired(c, node, t)
         THEN [c |-> mapDelete([c EXCEPT !.nodes = removeNode(c.nodes, node)], key),
               r |-> Undefined]
         ELSE [c |-> [c EXCEPT !.nodes[node].lastAccessed = t], r |-> c.nodes[node].value]

cacheGet(c, key, t) ==
    IF ~mapHas(c, key) THEN [c |-> c, r |-> Undefined]
    ELSE LET node == c.map[key] IN
         IF expired(c, node, t)
         THEN [c |-> mapDelete([c EXCEPT !.nodes = removeNode(c.nodes, node)], key),
               r |-> Undefined]
         ELSE [c |-> [c EXCEPT !.nodes = moveToFront([c.nodes EXCEPT ![node].lastAccessed = t], node)],
               r |-> c.nodes[node].value]

\* mutant: a set on a resident key whose entry has expired stores the new value
cacheSet_expiryChecked(c, key, value, t) ==
    IF mapHas(c, key)
    THEN LET existingNode == c.map[key]
             stored == IF expired(c, existingNode, t) THEN value ELSE c.nodes[existingNode].value IN
         [c |-> [c EXCEPT !.nodes = moveToFront([c.nodes EXCEPT ![existingNode].lastAccessed = t,
                                                                ![existingNode].value = stored],
                                               existingNode)],
          r |-> Undefined]
    ELSE LET newNode == FreshNode(c)
             c1 == [c EXCEPT !.map   = (key :> newNode) @@ c.map,
                             !.nodes = addToFront((newNode :> LRUNode(key, value, t, NULL, NULL)) @@ c.nodes,
                                                  newNode)]
         IN [c |-> IF Cardinality(DOMAIN c1.map) > c1.maxSize THEN evictLeastRecentlyUsed(c1) ELSE c1,
             r |-> Undefined]

\* mutant: a set makes a new node whether or not the key is resident
cacheSet_alwaysInserts(c, key, value, t) ==
    LET newNode == FreshNode(c)
        c1 == [c EXCEPT !.map   = (key :> newNode) @@ c.map,
                        !.nodes = addToFront((newNode :> LRUNode(key, value, t, NULL, NULL)) @@ c.nodes,
                                             newNode)]
    IN [c |-> IF Cardinality(DOMAIN c1.map) > c1.maxSize THEN evictLeastRecentlyUsed(c1) ELSE c1,
        r |-> Undefined]

\* mutant: a set on a resident key stores the new value
cacheSet_overwrite(c, key, value, t) ==
    IF mapHas(c, key)
    THEN LET existingNode == c.map[key] IN
         [c |-> [c EXCEPT !.nodes = moveToFront([c.nodes EXCEPT ![existingNode].lastAccessed = t,
                                                                ![existingNode].value = value],
                                               existingNode)],
          r |-> Undefined]
    ELSE LET newNode == FreshNode(c)
             c1 == [c EXCEPT !.map   = (key :> newNode) @@ c.map,
                             !.nodes = addToFront((newNode :> LRUNode(key, value, t, NULL, NULL)) @@ c.nodes,
                                                  newNode)]
         IN [c |-> IF Cardinality(DOMAIN c1.map) > c1.maxSize THEN evictLeastRecentlyUsed(c1) ELSE c1,
             r |-> Undefined]

cacheSet(c, key, value, t) ==
    IF mapHas(c, key)
    THEN LET existingNode == c.map[key] IN
         [c |-> [c EXCEPT !.nodes = moveToFront([c.nodes EXCEPT ![existingNode].lastAccessed = t],
                                               existingNode)],
          r |-> Undefined]
    ELSE LET newNode == FreshNode(c)
             c1 == [c EXCEPT !.map   = (key :> newNode) @@ c.map,
                             !.nodes = addToFront((newNode :> LRUNode(key, value, t, NULL, NULL)) @@ c.nodes,
                                                  newNode)]
         IN [c |-> IF Cardinality(DOMAIN c1.map) > c1.maxSize THEN evictLeastRecentlyUsed(c1) ELSE c1,
             r |-> Undefined]

\* mutant: has on a live entry touches it the way get does
cacheHas_touch(c, key, t) ==
    IF ~mapHas(c, key) THEN [c |-> c, r |-> FALSE]
    ELSE LET node == c.map[key] IN
         IF expired(c, node, t)
         THEN [c |-> mapDelete([c EXCEPT !.nodes = removeNode(c.nodes, node)], key), r |-> FALSE]
         ELSE [c |-> [c EXCEPT !.nodes = moveToFront([c.nodes EXCEPT ![node].lastAccessed = t], node)],
               r |-> TRUE]

cacheHas(c, key, t) ==
    IF ~mapHas(c, key) THEN [c |-> c, r |-> FALSE]
    ELSE LET node == c.map[key] IN
         IF expired(c, node, t)
         THEN [c |-> mapDelete([c EXCEPT !.nodes = removeNode(c.nodes, node)], key), r |-> FALSE]
         ELSE [c |-> c, r |-> TRUE]

cacheDelete(c, key) ==
    IF ~mapHas(c, key) THEN [c |-> c, r |-> FALSE]
    ELSE [c |-> mapDelete([c EXCEPT !.nodes = removeNode(c.nodes, c.map[key])], key), r |-> TRUE]

\* mutant: clear leaves the entries where they are
cacheClear_none(c) == [c |-> c, r |-> Undefined]

cacheClear(c) ==
    LET kept == [i \in {HEAD, TAIL} |-> c.nodes[i]]
    IN [c |-> [c EXCEPT !.map = EmptyMap,
                        !.nodes = [kept EXCEPT ![HEAD].next = TAIL, ![TAIL].prev = HEAD]],
        r |-> Undefined]

cacheSize(c) == Cardinality(DOMAIN c.map)

getStats(c) == [size |-> Cardinality(DOMAIN c.map), maxSize |-> c.maxSize]

(***************************************************************************)
(* The Map-based LRUCache (utils/cache.ts, second class).  The JavaScript  *)
(* Map is the sequence of its entries in insertion order; an entry carries *)
(* its key, value, lastAccessed and created.                               *)
(***************************************************************************)
\* new LRUCache(options): the options are stored as they are
TwinLRUCache(options) == [entries |-> <<>>, maxSize |-> options.maxSize, ttl |-> options.ttl]

\* Map.prototype.get: the index of the entry of key, 0 if there is none
twinFind(c, key) ==
    IF \E i \in 1..Len(c.entries) : c.entries[i].key = key
    THEN CHOOSE i \in 1..Len(c.entries) : c.entries[i].key = key
    ELSE 0

\* Map.prototype.delete
twinRemove(c, key) == [c EXCEPT !.entries = SelectSeq(c.entries, LAMBDA e : e.key # key)]

\* this.ttl && Date.now() - entry.created > this.ttl
twinExpired(c, i, t) == Truthy(c.ttl) /\ t - c.entries[i].created > c.ttl.n

\* the for loop of evictLeastRecentlyUsed: the key of the first entry, in iteration
\* order, whose lastAccessed no earlier entry undercuts ('' when the Map is empty)
twinOldestKey(c) ==
    IF c.entries = <<>> THEN ""
    ELSE c.entries[CHOOSE i \in 1..Len(c.entries) :
                      /\ \A j \in 1..Len(c.entries) : c.entries[i].lastAccessed <= c.entries[j].lastAccessed
                      /\ \A j \in 1..(i - 1) : c.entries[j].lastAccessed > c.entries[i].lastAccessed].key

\* if (oldestKey) this.cache.delete(oldestKey): the empty string is falsy
twinEvictLeastRecentlyUsed(c) ==
    IF twinOldestKey(c) # "" THEN twinRemove(c, twinOldestKey(c)) ELSE c

twinGet(c, key, t) ==
    LET i == twinFind(c, key) IN
    IF i = 0 THEN [c |-> c, r |-> Undefined]
    ELSE IF twinExpired(c, i, t) THEN [c |-> twinRemove(c, key), r |-> Undefined]
    ELSE [c |-> [c EXCEPT !.entries[i].lastAccessed = t], r |-> c.entries[i].value]

twinSet(c, key, value, t) ==
    LET i == twinFind(c, key) IN
    IF i # 0
    THEN [c |-> [c EXCEPT !.entries[i] = [key |-> key, value |-> value, lastAccessed |-> t, created |-> t]],
          r |-> Undefined]
    ELSE LET c1 == [c EXCEPT !.entries = Append(@, [key |-> key, value |-> value,
                                                     lastAccessed |-> t, created |-> t])]
         IN [c |-> IF Len(c1.entries) > c1.maxSize THEN twinEvictLeastRecentlyUsed(c1) ELSE c1,
             r |-> Undefined]

twinHas(c, key, t) ==
    LET i == twinFind(c, key) IN
    IF i = 0 THEN [c |-> c, r |-> FALSE]
    ELSE IF twinExpired(c, i, t) THEN [c |-> twinRemove(c, key), r |-> FALSE]
    ELSE [c |-> c, r |-> TRUE]

twinDelete(c, key) == [c |-> twinRemove(c, key), r |-> twinFind(c, key) # 0]

twinClear(c) == [c |-> [c EXCEPT !.entries = <<>>], r |-> Undefined]

twinSize(c) == Len(c.entries)

(***************************************************************************)
(* JWKS client (jwks-client.ts): DER encoding                              *)
(***************************************************************************)
jwksMaxAttempts == 3
MinKeyBits == 2048

RECURSIVE lengthBytes_push(_)
\* mutant: the bytes are appended, lowest first
lengthBytes_push(temp) == IF temp > 0 THEN <<temp % 256>> \o lengthBytes_push(temp \div 256) ELSE <<>>

RECURSIVE lengthBytes(_)
\* the while loop of encodeLength: bytes.unshift(temp & 0xff); temp >>= 8
lengthBytes(temp) == IF temp > 0 THEN lengthBytes(temp \div 256) \o <<temp % 256>> ELSE <<>>

encodeLength(length) ==
    IF length < 128 THEN <<length>>
    ELSE LET bytes == lengthBytes(length) IN <<128 + Len(bytes)>> \o bytes

\* mutant: no padding byte
encodeInteger_unpadded(bytes) == <<2>> \o encodeLength(Len(bytes)) \o bytes

\* bytes[0] >= 0x80 is false for an empty array (undefined >= 0x80)
encodeInteger(bytes) ==
    LET needsPadding == bytes # <<>> /\ bytes[1] >= 128
        paddedBytes == IF needsPadding THEN <<0>> \o bytes ELSE bytes
    IN <<2>> \o encodeLength(Len(paddedBytes)) \o paddedBytes

rsaOID == <<48, 13, 6, 9, 42, 134, 72, 134, 247, 13, 1, 1, 1, 5, 0>>

createRSAPublicKeyDER(n, e) ==
    LET sequence == encodeInteger(n) \o encodeInteger(e)
        rsaSequence == <<48>> \o encodeLength(Len(sequence)) \o sequence
        bitString == <<3>> \o encodeLength(Len(rsaSequence) + 1) \o <<0>> \o rsaSequence
        finalSequence == rsaOID \o bitString
    IN <<48>> \o encodeLength(Len(finalSequence)) \o finalSequence

\* A base64url string, given by the bytes it decodes to
B64(bytes) == [t |-> "string", s |-> IF bytes = <<>> THEN "" ELSE "base64url", bytes |-> bytes]
base64urlToArrayBuffer(v) == v.bytes

\* The PEM text: header, base64 of the DER bytes in 64-character lines, footer
Pem(der) == [t |-> "string", s |-> "PEM", der |-> der]

\* mutant: a key of exactly the minimum size is rejected too
jwkToPem_exclusive(jwk) ==
    IF ~Truthy(jwk.n) \/ ~Truthy(jwk.e)
    THEN Throw(Error(Msg("Invalid JWK: missing n or e parameters", <<>>)))
    ELSE LET nBuffer == base64urlToArrayBuffer(jwk.n)
             keyBitLength == Len(nBuffer) * 8
         IN IF keyBitLength <= MinKeyBits
            THEN Throw(Error(Msg("RSA key too weak", <<keyBitLength>>)))
            ELSE Ok(Pem(createRSAPublicKeyDER(nBuffer, base64urlToArrayBuffer(jwk.e))))

jwkToPem(jwk) ==
    IF ~Truthy(jwk.n) \/ ~Truthy(jwk.e)
    THEN Throw(Error(Msg("Invalid JWK: missing n or e parameters", <<>>)))
    ELSE LET nBuffer == base64urlToArrayBuffer(jwk.n)
             keyBitLength == Len(nBuffer) * 8
         IN IF keyBitLength < MinKeyBits
            THEN Throw(Error(Msg("RSA key too weak", <<keyBitLength>>)))
            ELSE Ok(Pem(createRSAPublicKeyDER(nBuffer, base64urlToArrayBuffer(jwk.e))))

\* jwks.keys.find(k => k.kid === kid): index of the first match, 0 if none
find(keys, kid) ==
    IF \E i \in 1..Len(keys) : keys[i].kid = kid
    THEN CHOOSE i \in 1..Len(keys) : keys[i].kid = kid /\ \A j \in 1..(i - 1) : keys[j].kid # kid
    ELSE 0

\* mutant: the key type is not looked at
afterFetch_noKtyCheck(c, kid, body, t) ==
    IF "keys" \notin DOMAIN body
    THEN [c |-> c, o |-> Throw(Error(Msg("TypeError: Cannot read properties of undefined", <<>>)))]
    ELSE
    LET jwks == body.keys
        i == find(jwks, kid) IN
    IF i = 0
    THEN [c |-> c, o |-> Throw(Error(Msg("Unable to find a signing key that matches", <<kid>>)))]
    ELSE LET publicKey == jwkToPem(jwks[i]) IN
         IF publicKey.kind = "throw" THEN [c |-> c, o |-> publicKey]
         ELSE [c |-> cacheSet(c, kid, publicKey.value, t).c, o |-> publicKey]

\* mutant: the converted key is returned but not stored
afterFetch_neverCaches(c, kid, body, t) ==
    IF "keys" \notin DOMAIN body
    THEN [c |-> c, o |-> Throw(Error(Msg("TypeError: Cannot read properties of undefined", <<>>)))]
    ELSE
    LET jwks == body.keys
        i == find(jwks, kid) IN
    IF i = 0
    THEN [c |-> c, o |-> Throw(Error(Msg("Unable to find a signing key that matches", <<kid>>)))]
    ELSE IF jwks[i].kty # "RSA"
    THEN [c |-> c, o |-> Throw(Error(Msg("Only RSA keys are supported", <<>>)))]
    ELSE [c |-> c, o |-> jwkToPem(jwks[i])]

\* mutant: the cache entry is made before the key is converted
afterFetch_cachesFailure(c, kid, body, t) ==
    IF "keys" \notin DOMAIN body
    THEN [c |-> c, o |-> Throw(Error(Msg("TypeError: Cannot read properties of undefined", <<>>)))]
    ELSE
    LET jwks == body.keys
        i == find(jwks, kid) IN
    IF i = 0
    THEN [c |-> c, o |-> Throw(Error(Msg("Unable to find a signing key that matches", <<kid>>)))]
    ELSE IF jwks[i].kty # "RSA"
    THEN [c |-> c, o |-> Throw(Error(Msg("Only RSA keys are supported", <<>>)))]
    ELSE LET publicKey == jwkToPem(jwks[i]) IN
         IF publicKey.kind = "throw"
         THEN [c |-> cacheSet(c, kid, Undefined, t).c, o |-> publicKey]
         ELSE [c |-> cacheSet(c, kid, publicKey.value, t).c, o |-> publicKey]

\* getSigningKey from the point where fetchJwksWithRetry resolved with jwks:
\* the outcome of the call and the cache it leaves
\* mutant: the call returns what the cache holds under kid after its set
afterFetch_returnsCached(c, kid, body, t) ==
    IF "keys" \notin DOMAIN body
    THEN [c |-> c, o |-> Throw(Error(Msg("TypeError: Cannot read properties of undefined", <<>>)))]
    ELSE
    LET jwks == body.keys
        i == find(jwks, kid) IN
    IF i = 0
    THEN [c |-> c, o |-> Throw(Error(Msg("Unable to find a signing key that matches", <<kid>>)))]
    ELSE IF jwks[i].kty # "RSA"
    THEN [c |-> c, o |-> Throw(Error(Msg("Only RSA keys are supported", <<>>)))]
    ELSE LET publicKey == jwkToPem(jwks[i]) IN
         IF publicKey.kind = "throw" THEN [c |-> c, o |-> publicKey]
         ELSE LET c1 == cacheSet(c, kid, publicKey.value, t).c
              IN [c |-> c1, o |-> Ok(c1.nodes[c1.map[kid]].value)]

afterFetch(c, kid, body, t) ==
    IF "keys" \notin DOMAIN body
    THEN [c |-> c, o |-> Throw(Error(Msg("TypeError: Cannot read properties of undefined", <<>>)))]
    ELSE
    LET jwks == body.keys
        i == find(jwks, kid) IN
    IF i = 0
    THEN [c |-> c, o |-> Throw(Error(Msg("Unable to find a signing key that matches", <<kid>>)))]
    ELSE IF jwks[i].kty # "RSA"
    THEN [c |-> c, o |-> Throw(Error(Msg("Only RSA keys are supported", <<>>)))]
    ELSE LET publicKey == jwkToPem(jwks[i]) IN
         IF publicKey.kind = "throw" THEN [c |-> c, o |-> publicKey]
         ELSE [c |-> cacheSet(c, kid, publicKey.value, t).c, o |-> publicKey]

(***************************************************************************)
(* Tokens                                                                  *)
(*                                                                         *)
(* A token string is a sequence of items: "." characters and chunks of     *)
(* base64url text that contain no ".".  A chunk is given by what atob and  *)
(* JSON.parse make of it.                                                  *)
(***************************************************************************)
DOT == [chunk |-> "."]

\* a chunk that atob rejects
BadBase64 == [chunk |-> "badBase64"]
\* a chunk that decodes to text JSON.parse rejects
BadJson == [chunk |-> "badJson"]
\* a chunk that decodes to the JSON text of v
Json(v) == [chunk |-> "json", value |-> v]
\* a chunk of signature bytes
SigChunk == [chunk |-> "signature"]

Object(fields) == [t |-> "object", f |-> fields]

Token(items) == [t |-> "string", items |-> items]

RECURSIVE split(_)
\* String.prototype.split('.'): the parts between the dots, each a (possibly empty) item sequence
split(items) ==
    IF \E i \in 1..Len(items) : items[i] = DOT
    THEN LET i == CHOOSE k \in 1..Len(items) : items[k] = DOT /\ \A j \in 1..(k - 1) : items[j] # DOT
         IN <<SubSeq(items, 1, i - 1)>> \o split(SubSeq(items, i + 1, Len(items)))
    ELSE <<items>>

\* atob of the padded, translated string: the decoded text, or a DOMException
base64urlDecode(part) ==
    IF part = <<>> THEN Ok([chunk |-> "empty"])
    ELSE IF part[1].chunk = "badBase64"
    THEN Throw(Error(Msg("InvalidCharacterError", <<>>)))
    ELSE Ok(part[1])

JSONparse(text) ==
    IF text.chunk = "json" THEN Ok(text.value)
    ELSE Throw(Error(Msg("SyntaxError", <<>>)))

\* JSON.parse(base64urlDecode(segment))
decodeSegment(part) ==
    LET text == base64urlDecode(part)
    IN IF text.kind = "throw" THEN text ELSE JSONparse(text.value)

\* property read v.name: a TypeError on null and undefined, undefined when absent
Prop(v, name) ==
    IF v.t \in {"null", "undefined"}
    THEN Throw(Error(Msg("TypeError: Cannot read properties", <<v.t, name>>)))
    ELSE IF v.t = "object" /\ name \in DOMAIN v.f THEN Ok(v.f[name])
    ELSE Ok(Undefined)

(***************************************************************************)
(* WristbandJwtValidatorImpl (validator.ts)                                *)
(***************************************************************************)
Issuer == "https://app.example"

Invalid(errorMessage) == [isValid |-> FALSE, errorMessage |-> errorMessage]
Valid(payload) == [isValid |-> TRUE, payload |-> payload]

Return(result) == [kind |-> "return", result |-> result]
\* the call is suspended at  await this.jwksClient.getSigningKey(header.kid)
AwaitKey(kid, parts, payload) == [kind |-> "awaitKey", kid |-> kid, parts |-> parts, payload |-> payload]

\* mutant: the number of entries is not looked at
algorithmsAccepted_anyCount(algs) ==
    /\ algs.t = "array"
    /\ Len(algs.items) >= 1
    /\ IsString(algs.items[1])
    /\ toUpperCase(algs.items[1].s) = <<"R", "S", "2", "5", "6">>

\* the constructor's checks on the algorithms argument
algorithmsAccepted(algs) ==
    /\ algs.t = "array"
    /\ Len(algs.items) = 1
    /\ IsString(algs.items[1])
    /\ toUpperCase(algs.items[1].s) = <<"R", "S", "2", "5", "6">>

\* new WristbandJwtValidatorImpl(jwksClient, issuer, algorithms); issuer is a string of
\* characters, an omitted algorithms argument takes the default ['RS256']
WristbandJwtValidatorNew(jwksClient, issuer, allowed) ==
    LET algs == IF allowed = Undefined THEN Arr(<<Str(<<"R", "S", "2", "5", "6">>)>>)
                ELSE allowed IN
    IF ~Truthy(jwksClient)
    THEN Throw(Error(Msg("JWKSClient must be provided to the validator.", <<>>)))
    ELSE IF ~(IsString(issuer) /\ trim(issuer.s) # <<>>)
    THEN Throw(Error(Msg("A valid issuer must be provided to the validator.", <<>>)))
    ELSE IF ~algorithmsAccepted(algs)
    THEN Throw(Error(Msg("Only the RS256 algorithm is supported.", <<>>)))
    ELSE Ok([jwksClient |-> jwksClient, issuer |-> issuer, algorithms |-> algs])

BEARER == <<"B", "e", "a", "r", "e", "r", " ">>

\* String.prototype.startsWith / substring(start)
startsWith(s, prefix) == Len(s) >= Len(prefix) /\ SubSeq(s, 1, Len(prefix)) = prefix
substring(s, start) == SubSeq(s, start + 1, Len(s))

\* ToBoolean of an Authorization header argument (a string of characters, an array, or
\* nothing)
headerGiven(v) ==
    CASE v.t \in {"undefined", "null"} -> FALSE
      [] v.t = "string" -> v.s # <<>>
      [] OTHER -> TRUE

\* mutant: the first of several header values is used
extractBearerToken_takesFirst(authorizationHeader) ==
    IF ~headerGiven(authorizationHeader)
    THEN Throw(Error(Msg("No authorization header provided", <<>>)))
    ELSE IF authorizationHeader.t = "array" /\ Len(authorizationHeader.items) = 0
    THEN Throw(Error(Msg("No authorization header provided", <<>>)))
    ELSE LET headerValue == IF authorizationHeader.t = "array" THEN authorizationHeader.items[1]
                            ELSE authorizationHeader IN
         IF ~(IsString(headerValue) /\ trim(headerValue.s) # <<>>)
         THEN Throw(Error(Msg("No authorization header provided", <<>>)))
         ELSE IF ~startsWith(headerValue.s, BEARER)
         THEN Throw(Error(Msg("Authorization header must provide \"Bearer\" token", <<>>)))
         ELSE LET token == substring(headerValue.s, 7) IN
              IF token = <<>> THEN Throw(Error(Msg("No token provided", <<>>)))
              ELSE Ok(Str(token))

extractBearerToken(authorizationHeader) ==
    IF ~headerGiven(authorizationHeader)
    THEN Throw(Error(Msg("No authorization header provided", <<>>)))
    ELSE IF authorizationHeader.t = "array" /\ Len(authorizationHeader.items) = 0
    THEN Throw(Error(Msg("No authorization header provided", <<>>)))
    ELSE IF authorizationHeader.t = "array" /\ Len(authorizationHeader.items) > 1
    THEN Throw(Error(Msg("Multiple authorization headers not allowed", <<>>)))
    ELSE LET headerValue == IF authorizationHeader.t = "array" THEN authorizationHeader.items[1]
                            ELSE authorizationHeader IN
         IF ~(IsString(headerValue) /\ trim(headerValue.s) # <<>>)
         THEN Throw(Error(Msg("No authorization header provided", <<>>)))
         ELSE IF ~startsWith(headerValue.s, BEARER)
         THEN Throw(Error(Msg("Authorization header must provide \"Bearer\" token", <<>>)))
         ELSE LET token == substring(headerValue.s, 7) IN
              IF token = <<>> THEN Throw(Error(Msg("No token provided", <<>>)))
              ELSE Ok(Str(token))

\* payload.exp && Date.now() >= payload.exp * 1000
expiredAt(exp, t) == Truthy(exp) /\ t >= exp.n * 1000
\* mutant: the comparison includes equality
notYetValidAt_inclusive(nbf, t) == Truthy(nbf) /\ t <= nbf.n * 1000

\* payload.nbf && Date.now() < payload.nbf * 1000
notYetValidAt(nbf, t) == Truthy(nbf) /\ t < nbf.n * 1000

\* The claim checks on a decoded header and payload (validator.ts lines 144-173)
claimChecks(header, payload, parts, algs, t) ==
    LET alg == Prop(header, "alg") IN
    IF alg.kind = "throw" THEN alg
    ELSE IF ~validateAlgorithm(alg.value, algs)
    THEN Return(Invalid(Msg("Algorithm not allowed. Expected one of", <<alg.value, algs.items>>)))
    ELSE LET iss == Prop(payload, "iss") IN
    IF iss.kind = "throw" THEN iss
    ELSE IF iss.value # Str(Issuer)
    THEN Return(Invalid(Msg("Invalid issuer", <<Issuer, iss.value>>)))
    ELSE IF expiredAt(Prop(payload, "exp").value, t)
    THEN Return(Invalid(Msg("Token has expired", <<>>)))
    ELSE IF notYetValidAt(Prop(payload, "nbf").value, t)
    THEN Return(Invalid(Msg("Token not yet valid", <<>>)))
    ELSE IF ~Truthy(Prop(header, "kid").value)
    THEN Return(Invalid(Msg("Token header missing kid (key ID)", <<>>)))
    ELSE AwaitKey(Prop(header, "kid").value, parts, payload)

\* validate() up to its first await (validator.ts lines 122-177), inside the outer try
validateBody(token, algs, t) ==
    IF token.t \in {"undefined", "null"} \/ (token.t = "string" /\ token.items = <<>>)
    THEN Return(Invalid(Msg("No token provided", <<>>)))
    ELSE IF token.t # "string"
    THEN Throw(Error(Msg("TypeError: token.split is not a function", <<>>)))
    ELSE LET parts == split(token.items) IN
    IF Len(parts) # 3 THEN Return(Invalid(Msg("Invalid JWT format", <<>>)))
    ELSE LET header  == decodeSegment(parts[1])
             payload == decodeSegment(parts[2]) IN
    IF header.kind = "throw" \/ payload.kind = "throw"
    THEN Return(Invalid(Msg("Invalid JWT encoding", <<>>)))
    ELSE claimChecks(header.value, payload.value, parts, algs, t)

\* mutant: an exception is passed on to the caller
outerCatch_rethrow(step) == step

\* mutant: every exception is reported with the fixed text
outerCatch_fixedText(step) ==
    IF step.kind = "throw" THEN Return(Invalid(Msg("Token validation failed", <<>>)))
    ELSE step

\* the outer catch of validate() (validator.ts lines 193-195)
outerCatch(step) ==
    IF step.kind = "throw"
    THEN Return(Invalid(IF instanceofError(step.error) THEN step.error.message
                        ELSE Msg("Token validation failed", <<>>)))
    ELSE step

\* mutant: the raised value is reported without the prefix
keyFailure_unwrapped(error) ==
    Return(Invalid(IF instanceofError(error) THEN error.message ELSE Msg("Unknown error", <<>>)))

\* the catch around getSigningKey (validator.ts lines 178-183)
keyFailure(error) ==
    Return(Invalid(Msg("Failed to get signing key: ",
                       <<IF instanceofError(error) THEN error.message ELSE Msg("Unknown error", <<>>)>>)))

\* the data handed to verifyRS256Signature: `${headerB64}.${payloadB64}`
signedData(parts) == parts[1] \o <<DOT>> \o parts[2]

(***************************************************************************)
(* verifyRS256Signature (utils/crypto.ts)                                  *)
(***************************************************************************)
\* what Web Crypto does with the imported key, the signature and the data
CryptoOutcomes == {"verified", "rejected", "importFails", "noCrypto"}

verifyRS256Signature(data, signature, publicKeyPem, crypto) ==
    IF data = <<>> \/ signature = <<>> \/ ~Truthy(publicKeyPem) THEN FALSE
    ELSE IF crypto = "noCrypto" THEN FALSE
    ELSE IF signature[1].chunk = "badBase64" THEN FALSE
    ELSE IF crypto = "importFails" THEN FALSE
    ELSE crypto = "verified"

\* mutant: the signature verdict is ignored
afterVerify_ignoresVerdict(signatureValid, payload) == Return(Valid(payload))

\* mutant: the failure result still carries the decoded payload
afterVerify_leaksPayload(signatureValid, payload) ==
    IF ~signatureValid
    THEN Return([isValid |-> FALSE, errorMessage |-> Msg("Invalid signature", <<>>), payload |-> payload])
    ELSE Return(Valid(payload))

\* validator.ts lines 186-192: the result once verifyRS256Signature settled with signatureValid
afterVerify(signatureValid, payload) ==
    IF ~signatureValid THEN Return(Invalid(Msg("Invalid signature", <<>>)))
    ELSE Return(Valid(payload))

(***************************************************************************)
(* Inputs                                                                  *)
(***************************************************************************)
RS256 == <<"R", "S", "2", "5", "6">>

TimePoints == {0} \cup {k * 1000 + d : k \in 1..MaxSec, d \in {0 - 1, 0, 1}}

\* algorithm names a caller or a token may present
AlgNames == {RS256, <<"r", "s", "2", "5", "6">>, <<"R", "s", "2", "5", "6">>,
             <<"H", "S", "2", "5", "6">>, NONE, <<"N", "O", "N", "E">>, <<"N", "o", "n", "e">>,
             <<" ", "n", "o", "n", "e">>, <<"R", "S", "2", "5", "6", " ">>, <<>>, <<" ", "\t">>}

AlgInputs == {Str(a) : a \in AlgNames} \cup {Undefined, Null, Num(256)}

AllowEntries == {Str(RS256), Str(<<"r", "s", "2", "5", "6">>), Str(NONE), Str(<<"N", "O", "N", "E">>),
                 Str(<<"H", "S", "2", "5", "6">>), Str(<<" ", "n", "o", "n", "e">>), Str(<<" ">>),
                 Undefined}

SeqsUpTo(S, n) == UNION {[1..k -> S] : k \in 0..n}

AllowLists == {Arr(l) : l \in SeqsUpTo(AllowEntries, MaxAllow)} \cup {NotArray}

\* headers and payloads a token may carry
HeaderObjects ==
    {Object([alg |-> Str(RS256), kid |-> k]) : k \in {Undefined, Str(""), Str("k1"), Str("k2")}}
    \cup {Object([alg |-> a, kid |-> k]) :
            a \in {Str(<<"r", "s", "2", "5", "6">>), Str(<<"H", "S", "2", "5", "6">>),
                   Str(NONE), Undefined},
            k \in {Undefined, Str("k1")}}

PayloadObjects ==
    {Object([iss |-> i, exp |-> e, nbf |-> n]) :
        i \in {Str(Issuer), Str("https://other.example"), Undefined},
        e \in {Undefined, Num(0), Num(1), Num(2)},
        n \in {Undefined, Num(0), Num(1)}}

Defective == {BadBase64, BadJson, Json(Null), Json(Num(7))}

HeaderChunks  == {Json(h) : h \in HeaderObjects} \cup Defective
PayloadChunks == {Json(p) : p \in PayloadObjects} \cup Defective

GoodHeader  == Json(Object([alg |-> Str(RS256), kid |-> Str("k1")]))
GoodPayload == Json(Object([iss |-> Str(Issuer), exp |-> Undefined, nbf |-> Undefined]))

Tokens ==
    {Undefined, Null, Num(1), Token(<<>>)}
    \cup {Token(<<GoodHeader>>), Token(<<GoodHeader, DOT, GoodPayload>>),
          Token(<<GoodHeader, DOT, GoodPayload, DOT, SigChunk, DOT, SigChunk>>),
          Token(<<DOT, DOT>>), Token(<<GoodHeader, DOT, GoodPayload, DOT>>),
          Token(<<GoodHeader, DOT, GoodPayload, DOT, BadBase64>>)}
    \cup {Token(<<h, DOT, p, DOT, SigChunk>>) : h \in HeaderChunks, p \in PayloadChunks}

\* key material the JWKS endpoint may publish
Modulus(len, first) == [i \in 1..len |-> IF i = 1 THEN first ELSE i % 256]
Exponent == <<1, 0, 1>>

Jwk(kid, kty, n, e) == [kid |-> kid, kty |-> kty, n |-> n, e |-> e]

KeyA     == Jwk("k1", "RSA", B64(Modulus(256, 195)), B64(Exponent))
KeyB     == Jwk("k1", "RSA", B64(Modulus(256, 90)), B64(Exponent))
KeyWeak  == Jwk("k2", "RSA", B64(Modulus(128, 195)), B64(Exponent))
KeyEC    == Jwk("k2", "EC", Undefined, Undefined)
KeyNoN   == Jwk("k2", "RSA", Undefined, B64(Exponent))
KeyC     == Jwk("k2", "RSA", B64(Modulus(257, 0)), B64(Exponent))

Bodies == {[keys |-> <<KeyA, KeyC>>], [keys |-> <<KeyB, KeyWeak>>], [keys |-> <<KeyEC, KeyA>>],
           [keys |-> <<KeyNoN>>], [status |-> "no keys member"]}

\* how one fetch(jwksUri) attempt can end: a body, or the value the try block caught
FetchOutcomes ==
    {Ok(b) : b \in Bodies}
    \cup {Throw(Error(Msg("HTTP", <<500>>))), Throw(Error(Msg("fetch failed", <<>>))),
          Throw(Str("thrown string"))}

\* how a test double standing in for the JWKS client can settle
DoubleKeyOutcomes ==
    {Ok(Pem(<<48>>)), Throw(Error(Msg("JWKS fetch failed", <<>>))), Throw(Str("thrown string"))}

\* how a test double standing in for verifyRS256Signature can settle
DoubleVerifyOutcomes ==
    {Ok(TRUE), Ok(FALSE), Throw(Error(Msg("Unexpected error", <<>>))), Throw(Str("string error")),
     Throw(Error(Msg("", <<>>))), Throw(Object([message |-> Str("not an Error")]))}

(***************************************************************************)
(* State machine                                                           *)
(***************************************************************************)
NoFrame   == [kind |-> "none"]
NoResult  == [kind |-> "none"]
NoOutcome == [kind |-> "none"]
NoPrev    == [kind |-> "none"]
NoCall    == [fn |-> "none"]
NoTwin    == [entries |-> <<>>, maxSize |-> 0, ttl |-> Undefined]
NoHist    == [touched |-> <<>>, born |-> <<>>]

\* g_hist before the first getSigningKey call:
\*   calls    number of getSigningKey calls made
\*   live     the kid of the current call was resident and unexpired when it was called
\*   before   the value of fetches when the current call was made; with calls that
\*            overlap, the number of fetches issued so far by the other calls
\*   trace    what the current call did after its cache lookup: "fetch" (a fetch is
\*            issued), "ok" / "fail" (the attempt ended), "delay" (the retry delay began)
\*   failure  the value the attempt threw after which the call gave up
\*   body     the key set the successful attempt of the current call received
\*   served   for each resident kid, the key returned by the call that stored the entry
NoCalls   == [calls |-> 0, live |-> FALSE, before |-> 0, trace |-> <<>>, failure |-> Undefined,
              body |-> Undefined, served |-> <<>>]

AlgIdle ==
    /\ a_alg = Undefined /\ a_allowed = NotArray /\ a_done = FALSE /\ a_result = FALSE
    /\ p_call = NoCall /\ m_cache = NoTwin

CacheIdle ==
    /\ now = 0 /\ cache = NewLRUCache(1, Undefined) /\ c_last = [op |-> "none"]
    /\ c_hist = NoHist

ValidIdle ==
    /\ algorithms = Arr(<<Str(RS256)>>) /\ wiring = "real"
    /\ v_pc = "idle" /\ v_token = Undefined /\ v_now = 0 /\ v_frame = NoFrame
    /\ v_key = Undefined /\ v_result = NoResult /\ v_raised = FALSE /\ v_log = <<>>
    /\ v_prev = NoPrev

ClientIdle ==
    /\ g_pc = "idle" /\ g_kid = "" /\ g_attempt = 0
    /\ g_outcome = NoOutcome /\ fetches = 0
    /\ g_hist = NoCalls /\ g_parked = EmptyBag

(***************************************************************************)
(* SpecAlg: validateAlgorithm applied to every input                       *)
(***************************************************************************)
InitAlg ==
    /\ a_alg \in AlgInputs /\ a_allowed \in AllowLists
    /\ a_done = FALSE /\ a_result = FALSE
    /\ p_call = NoCall /\ m_cache = NoTwin
    /\ CacheIdle /\ ValidIdle /\ ClientIdle

CallValidateAlgorithm ==
    /\ ~a_done
    /\ a_done' = TRUE
    /\ a_result' = validateAlgorithm(a_alg, a_allowed)
    /\ UNCHANGED <<a_alg, a_allowed, p_call, m_cache, cacheVars, validVars, clientVars>>

NextAlg == CallValidateAlgorithm

SpecAlg == InitAlg /\ [][NextAlg]_vars

(***************************************************************************)
(* SpecCache: a bare LRUCache, constructed from arbitrary options and then *)
(* driven by arbitrary operations.  c_last is the last call: its           *)
(* arguments and result, for get and has the time since the last access of *)
(* the entry (age, -1 if the key was not resident), for set the same, for  *)
(* set and a get that hit the time of the call (at), for has the cache as  *)
(* it was before the call (before).  c_hist is the history of the cache's  *)
(* use,                                                                    *)
(* kept from the calls and their results alone:                            *)
(*   touched  on a cache without ttl, the distinct keys touched (a set, or *)
(*            a get that hit), the most recently touched first, cut to the *)
(*            maxSize most recent; delete and clear take keys out of it    *)
(*   born     for each resident key, the value given by the set that       *)
(*            inserted the entry                                           *)
(***************************************************************************)
Keys   == {"", "a", "b"}
Values == {Str("v1"), Str("v2")}
Ttls   == {Undefined, Null, Num(0), Num(0 - 1), Frac(1), Num(1)}
MaxSizes == {Undefined, Num(0), Num(0 - 1), Frac(1)} \cup {Num(m) : m \in 1..MaxSize}

CacheOptions == {[maxSize |-> m, ttl |-> ttl] : m \in MaxSizes, ttl \in Ttls}

\* no instance: the constructor threw
NoCache == [map |-> EmptyMap, nodes |-> <<>>, maxSize |-> 0, ttl |-> Undefined]

InitCache ==
    /\ now = 0
    /\ \E options \in CacheOptions :
          LET made == LRUCacheNew(options) IN
          /\ cache = IF made.kind = "ok" THEN made.value ELSE NoCache
          /\ c_last = [op |-> "new", options |-> options,
                       threw |-> IF made.kind = "ok" THEN "nothing" ELSE made.error.message.text]
    /\ c_hist = NoHist
    /\ AlgIdle /\ ValidIdle /\ ClientIdle

Without(seq, k) == SelectSeq(seq, LAMBDA x : x # k)

\* the keys of seq with k moved (or added) to the front, cut to the n most recent
Touch(seq, k, n) ==
    LET all == <<k>> \o Without(seq, k)
    IN SubSeq(all, 1, IF Len(all) < n THEN Len(all) ELSE n)

\* born after an operation that leaves the cache c: entries of keys no longer resident
\* are dropped, a newly inserted entry is recorded
Born(c, added) ==
    [k \in DOMAIN c.map |-> IF k \in DOMAIN added THEN added[k] ELSE c_hist.born[k]]

\* the time since the last access of the entry of key k, if k is resident (-1 if not)
Age(k) == IF mapHas(cache, k) THEN now - cache.nodes[cache.map[k]].lastAccessed ELSE 0 - 1

CacheTick ==
    /\ cache # NoCache
    /\ \E t \in 0..MaxTime : t > now /\ now' = t
    /\ UNCHANGED <<cache, c_last, c_hist, algVars, validVars, clientVars>>

CacheSet(k, v) ==
    /\ cache # NoCache
    /\ cache' = cacheSet(cache, k, v, now).c
    /\ c_last' = [op |-> "set", key |-> k, value |-> v, inserted |-> ~mapHas(cache, k),
                   sizeBefore |-> cacheSize(cache), at |-> now, age |-> Age(k)]
    /\ c_hist' = [touched |-> IF cache.ttl = Undefined
                              THEN Touch(c_hist.touched, k, cache.maxSize) ELSE <<>>,
                  born    |-> Born(cacheSet(cache, k, v, now).c,
                                   IF mapHas(cache, k) THEN <<>> ELSE (k :> v))]
    /\ UNCHANGED <<now, algVars, validVars, clientVars>>

CacheGet(k) ==
    /\ cache # NoCache
    /\ cache' = cacheGet(cache, k, now).c
    /\ c_last' = [op |-> "get", key |-> k, r |-> cacheGet(cache, k, now).r, age |-> Age(k),
                   at |-> IF cacheGet(cache, k, now).r # Undefined THEN now ELSE 0 - 1]
    /\ c_hist' = [touched |-> IF cache.ttl = Undefined /\ cacheGet(cache, k, now).r # Undefined
                              THEN Touch(c_hist.touched, k, cache.maxSize) ELSE c_hist.touched,
                  born    |-> Born(cacheGet(cache, k, now).c, <<>>)]
    /\ UNCHANGED <<now, algVars, validVars, clientVars>>

CacheHas(k) ==
    /\ cache # NoCache
    /\ cache' = cacheHas(cache, k, now).c
    /\ c_last' = [op |-> "has", key |-> k, r |-> cacheHas(cache, k, now).r, age |-> Age(k),
                   before |-> cache]
    /\ c_hist' = [touched |-> c_hist.touched, born |-> Born(cacheHas(cache, k, now).c, <<>>)]
    /\ UNCHANGED <<now, algVars, validVars, clientVars>>

CacheDelete(k) ==
    /\ cache # NoCache
    /\ cache' = cacheDelete(cache, k).c
    /\ c_last' = [op |-> "delete", key |-> k, r |-> cacheDelete(cache, k).r]
    /\ c_hist' = [touched |-> Without(c_hist.touched, k),
                  born    |-> Born(cacheDelete(cache, k).c, <<>>)]
    /\ UNCHANGED <<now, algVars, validVars, clientVars>>

CacheClear ==
    /\ cache # NoCache
    /\ cache' = cacheClear(cache).c
    /\ c_last' = [op |-> "clear"]
    /\ c_hist' = NoHist
    /\ UNCHANGED <<now, algVars, validVars, clientVars>>

NextCache ==
    \/ CacheTick
    \/ \E k \in Keys, v \in Values : CacheSet(k, v)
    \/ \E k \in Keys : CacheGet(k)
    \/ \E k \in Keys : CacheHas(k)
    \/ \E k \in Keys : CacheDelete(k)
    \/ CacheClear

SpecCache == InitCache /\ [][NextCache]_vars

(***************************************************************************)
(* SpecValidate: one validate() call against the JWKS client and the       *)
(* signature capability.  The client's cache is either new or holds the    *)
(* key an earlier getSigningKey("k1") stored at time 0.                    *)
(***************************************************************************)
PemA == jwkToPem(KeyA).value

InitValidate ==
    /\ algorithms \in {a \in {Arr(<<e>>) : e \in AllowEntries} : algorithmsAccepted(a)}
    /\ wiring \in {"real", "double"}
    /\ v_pc = "idle" /\ v_token = Undefined /\ v_now = 0 /\ v_frame = NoFrame
    /\ v_key = Undefined /\ v_result = NoResult /\ v_raised = FALSE /\ v_log = <<>>
    /\ v_prev = NoPrev
    /\ now = 0
    /\ \E ttl \in {Undefined, Num(1000)} :
          cache \in {NewLRUCache(MaxSize, ttl), cacheSet(NewLRUCache(MaxSize, ttl), "k1", PemA, 0).c}
    /\ wiring = "double" => cache = NewLRUCache(MaxSize, Undefined)
    /\ c_last = [op |-> "none"] /\ c_hist = NoHist
    /\ AlgIdle
    /\ g_pc = "idle" /\ g_kid = "" /\ g_attempt = 0 /\ g_outcome = NoOutcome /\ fetches = 0
    /\ g_hist = [NoCalls EXCEPT !.served = [k \in DOMAIN cache.map |-> PemA]]
    /\ g_parked = EmptyBag

\* time passes, before the call and while it is suspended
Tick ==
    /\ v_pc # "done"
    /\ \E t \in TimePoints : t > now /\ now' = t
    /\ UNCHANGED <<cache, c_last, c_hist, algVars, validVars, clientVars>>

\* validate() returns: the promise settles with the step's result, or rejects
Settle(step) ==
    /\ v_pc' = "done"
    /\ v_raised' = (step.kind = "throw")
    /\ v_result' = IF step.kind = "return" THEN step.result ELSE NoResult

\* served after a step of the call for kid that leaves the cache c: entries of kids no
\* longer resident are dropped, an entry the call stored is recorded with the key returned
Served(c, kid, outcome) ==
    [k \in DOMAIN c.map |->
        IF k \in DOMAIN g_hist.served THEN g_hist.served[k]
        ELSE IF k = kid /\ outcome.kind = "ok" THEN outcome.value
        ELSE Undefined]

\* the entry of kid is resident and its age is at most the ttl, if there is one
Live(kid) ==
    /\ mapHas(cache, kid)
    /\ Truthy(cache.ttl) => now - cache.nodes[cache.map[kid]].lastAccessed <= cache.ttl.n

\* mutant: a call that misses while another call for the same kid is in flight waits for
\* that call's fetch instead of issuing its own
BeginGetSigningKey_singleFlight(kid) ==
    /\ g_kid' = kid
    /\ wiring = "real"
    /\ LET got == cacheGet(cache, kid, now)
           joins == \/ g_kid = kid /\ g_pc \in {"fetching", "delay"}
                    \/ \E f \in BagToSet(g_parked) : f.kid = kid /\ f.pc \in {"fetching", "delay"} IN
       /\ cache' = got.c
       /\ IF Truthy(got.r)
          THEN /\ g_pc' = "settled"
               /\ g_outcome' = Ok(got.r)
               /\ g_hist' = [calls |-> g_hist.calls + 1, live |-> Live(kid),
                             before |-> fetches, trace |-> <<>>, failure |-> Undefined,
                             body |-> Undefined, served |-> Served(got.c, kid, NoOutcome)]
               /\ UNCHANGED <<g_attempt, fetches>>
          ELSE /\ g_pc' = "fetching"
               /\ g_attempt' = 1
               /\ fetches' = IF joins THEN fetches ELSE fetches + 1
               /\ g_hist' = [calls |-> g_hist.calls + 1, live |-> Live(kid),
                             before |-> fetches, trace |-> IF joins THEN <<>> ELSE <<"fetch">>,
                             failure |-> Undefined, body |-> Undefined,
                             served |-> Served(got.c, kid, NoOutcome)]
               /\ g_outcome' = NoOutcome

\* mutant: the cache is not consulted
BeginGetSigningKey_alwaysFetch(kid) ==
    /\ g_kid' = kid
    /\ IF wiring = "double"
       THEN /\ g_pc' = "double"
            /\ g_hist' = [g_hist EXCEPT !.calls = @ + 1, !.live = FALSE, !.before = fetches,
                                        !.trace = <<>>, !.failure = Undefined,
                                        !.body = Undefined]
            /\ UNCHANGED <<cache, g_attempt, g_outcome, fetches>>
       ELSE /\ g_pc' = "fetching"
            /\ g_attempt' = 1
            /\ fetches' = fetches + 1
            /\ g_hist' = [calls |-> g_hist.calls + 1, live |-> Live(kid), before |-> fetches,
                          trace |-> <<"fetch">>, failure |-> Undefined,
                          body |-> Undefined, served |-> g_hist.served]
            /\ UNCHANGED <<cache, g_outcome>>

\* getSigningKey(kid) up to its first await: the cache lookup, and on a miss the
\* first fetch of fetchJwksWithRetry
BeginGetSigningKey(kid) ==
    /\ g_kid' = kid
    /\ IF wiring = "double"
       THEN /\ g_pc' = "double"
            /\ g_hist' = [g_hist EXCEPT !.calls = @ + 1, !.live = FALSE, !.before = fetches,
                                        !.trace = <<>>, !.failure = Undefined,
                                        !.body = Undefined]
            /\ UNCHANGED <<cache, g_attempt, g_outcome, fetches>>
       ELSE LET got == cacheGet(cache, kid, now) IN
            /\ cache' = got.c
            /\ IF Truthy(got.r)
               THEN /\ g_pc' = "settled"
                    /\ g_outcome' = Ok(got.r)
                    /\ g_hist' = [calls |-> g_hist.calls + 1, live |-> Live(kid),
                                  before |-> fetches, trace |-> <<>>, failure |-> Undefined,
                                  body |-> Undefined, served |-> Served(got.c, kid, NoOutcome)]
                    /\ UNCHANGED <<g_attempt, fetches>>
               ELSE /\ g_pc' = "fetching"
                    /\ g_attempt' = 1
                    /\ fetches' = fetches + 1
                    /\ g_hist' = [calls |-> g_hist.calls + 1, live |-> Live(kid),
                                  before |-> fetches, trace |-> <<"fetch">>,
                                  failure |-> Undefined, body |-> Undefined,
                                  served |-> Served(got.c, kid, NoOutcome)]
                    /\ g_outcome' = NoOutcome

\* validate(token) runs to its first await or to its return
RunValidate(token) ==
    /\ v_token' = token
    /\ v_now' = now
    /\ LET step == outerCatch(validateBody(token, algorithms, now)) IN
       IF step.kind = "awaitKey"
       THEN /\ v_pc' = "awaitKey"
            /\ v_frame' = step
            /\ v_log' = <<[call |-> "getSigningKey", kid |-> step.kid]>>
            /\ BeginGetSigningKey(step.kid.s)
            /\ UNCHANGED <<v_result, v_raised>>
       ELSE /\ Settle(step)
            /\ UNCHANGED <<v_frame, v_log, cache, clientVars>>
    /\ UNCHANGED <<now, c_last, c_hist, algVars, algorithms, wiring, v_key, g_parked>>

\* validate(token) is called
Validate(token) ==
    /\ v_pc = "idle" /\ v_prev = NoPrev
    /\ RunValidate(token)
    /\ UNCHANGED v_prev

\* the message of the Error thrown when the last attempt failed with error
fetchFailure(error) ==
    Throw(Error(Msg("Failed to fetch JWKS after attempts",
                    <<jwksMaxAttempts,
                      IF instanceofError(error) THEN error.message
                      ELSE Msg("Unknown error", <<>>)>>)))

\* mutant: no attempt is taken to be the last one
isLastAttempt_never(attempt) == FALSE

\* const isLastAttempt = attempt === jwksMaxAttempts
isLastAttempt(attempt) == attempt = jwksMaxAttempts

\* mutant: a key rejected after a successful fetch is handled like a failed attempt
FetchSettles_retriesRejection(outcome) ==
    /\ g_pc = "fetching"
    /\ LET done == IF outcome.kind = "ok" THEN afterFetch(cache, g_kid, outcome.value, now)
                   ELSE [c |-> cache, o |-> outcome] IN
       IF done.o.kind = "ok"
       THEN /\ cache' = done.c
            /\ g_outcome' = done.o
            /\ g_pc' = "settled"
            /\ g_hist' = [g_hist EXCEPT !.trace = Append(@, "ok"), !.body = outcome.value,
                                        !.served = Served(done.c, g_kid, done.o)]
       ELSE IF isLastAttempt(g_attempt)
       THEN /\ g_outcome' = fetchFailure(done.o.error)
            /\ g_pc' = "settled"
            /\ g_hist' = [g_hist EXCEPT !.trace = Append(@, IF outcome.kind = "ok" THEN "ok" ELSE "fail"),
                                        !.failure = done.o.error]
            /\ UNCHANGED cache
       ELSE /\ g_pc' = "delay"
            /\ g_hist' = [g_hist EXCEPT !.trace = @ \o <<IF outcome.kind = "ok" THEN "ok" ELSE "fail",
                                                          "delay">>]
            /\ UNCHANGED <<cache, g_outcome>>
    /\ UNCHANGED <<g_kid, g_attempt, fetches, g_parked, now, c_last, c_hist, algVars, validVars>>

\* one fetch attempt ends (jwks-client.ts fetchJwksWithRetry, one loop iteration);
\* on success getSigningKey runs on to its end
FetchSettles(outcome) ==
    /\ g_pc = "fetching"
    /\ IF outcome.kind = "ok"
       THEN LET done == afterFetch(cache, g_kid, outcome.value, now) IN
            /\ cache' = done.c
            /\ g_outcome' = done.o
            /\ g_pc' = "settled"
            /\ g_hist' = [g_hist EXCEPT !.trace = Append(@, "ok"), !.body = outcome.value,
                                        !.served = Served(done.c, g_kid, done.o)]
       ELSE IF isLastAttempt(g_attempt)
       THEN /\ g_outcome' = fetchFailure(outcome.error)
            /\ g_pc' = "settled"
            /\ g_hist' = [g_hist EXCEPT !.trace = Append(@, "fail"), !.failure = outcome.error]
            /\ UNCHANGED cache
       ELSE /\ g_pc' = "delay"
            /\ g_hist' = [g_hist EXCEPT !.trace = @ \o <<"fail", "delay">>]
            /\ UNCHANGED <<cache, g_outcome>>
    /\ UNCHANGED <<g_kid, g_attempt, fetches, g_parked, now, c_last, c_hist, algVars, validVars>>

\* the retry delay elapses: attempt++, and the loop either issues the next fetch or is
\* left (jwks-client.ts lines 182 and 203)
RetryDelayElapses ==
    /\ g_pc = "delay"
    /\ g_attempt' = g_attempt + 1
    /\ IF g_attempt + 1 <= jwksMaxAttempts
       THEN /\ fetches' = fetches + 1
            /\ g_pc' = "fetching"
            /\ g_hist' = [g_hist EXCEPT !.trace = Append(@, "fetch")]
            /\ UNCHANGED g_outcome
       ELSE /\ g_outcome' = Throw(Error(Msg("Unexpected error in JWKS fetch retry logic", <<>>)))
            /\ g_pc' = "settled"
            /\ UNCHANGED <<fetches, g_hist>>
    /\ UNCHANGED <<g_kid, g_parked, cache, now, c_last, c_hist, algVars, validVars>>

\* a test double for the JWKS client settles
DoubleKeySettles(outcome) ==
    /\ g_pc = "double"
    /\ g_outcome' = outcome
    /\ g_pc' = "settled"
    /\ UNCHANGED <<g_kid, g_attempt, fetches, g_hist, g_parked, cache, now, c_last, c_hist,
                   algVars, validVars>>

\* validate() resumes after  await getSigningKey  (validator.ts lines 177-186)
KeySettled ==
    /\ v_pc = "awaitKey"
    /\ g_pc = "settled"
    /\ g_pc' = "idle"
    /\ IF g_outcome.kind = "throw"
       THEN /\ Settle(outerCatch(keyFailure(g_outcome.error)))
            /\ UNCHANGED <<v_key, v_log>>
       ELSE /\ v_key' = g_outcome.value
            /\ v_pc' = "awaitVerify"
            /\ v_log' = Append(v_log, [call |-> "verifyRS256Signature",
                                       data |-> signedData(v_frame.parts),
                                       signature |-> v_frame.parts[3]])
            /\ UNCHANGED <<v_result, v_raised>>
    /\ UNCHANGED <<g_kid, g_attempt, g_outcome, fetches, g_hist, g_parked, cache, now, c_last,
                   c_hist, algVars, algorithms, wiring, v_token, v_now, v_frame, v_prev>>

\* how the awaited verifyRS256Signature call can settle
VerifyOutcomes ==
    IF wiring = "double" THEN DoubleVerifyOutcomes
    ELSE {Ok(verifyRS256Signature(signedData(v_frame.parts), v_frame.parts[3], v_key, c)) :
             c \in CryptoOutcomes}

\* validate() resumes after  await verifyRS256Signature  (validator.ts lines 186-192);
\* the verdict is a function of key, signature and data: a later call of the same token
\* with the same key gets the verdict the earlier call got
VerifySettled(outcome) ==
    /\ v_pc = "awaitVerify"
    /\ outcome \in VerifyOutcomes
    /\ (v_prev # NoPrev /\ v_prev.key = v_key) => outcome = v_prev.verdict
    /\ v_log' = Append(v_log, [call |-> "settled", outcome |-> outcome])
    /\ Settle(outerCatch(IF outcome.kind = "throw" THEN outcome
                         ELSE afterVerify(outcome.value, v_frame.payload)))
    /\ UNCHANGED <<v_key, v_frame, clientVars, cache, now, c_last, c_hist, algVars, algorithms, wiring,
                   v_token, v_now, v_prev>>

NextValidate ==
    \/ Tick
    \/ \E token \in Tokens : Validate(token)
    \/ \E o \in FetchOutcomes : FetchSettles(o)
    \/ RetryDelayElapses
    \/ \E o \in DoubleKeyOutcomes : DoubleKeySettles(o)
    \/ KeySettled
    \/ \E o \in DoubleVerifyOutcomes : VerifySettled(o)

SpecValidate == InitValidate /\ [][NextValidate]_vars

(***************************************************************************)
(* SpecTwice: validate() is called with a token, and once it returned a    *)
(* valid result it is called again with the same token, after any time.    *)
(***************************************************************************)
InitTwice ==
    /\ now = 0
    /\ \E ttl \in {Undefined, Num(1000)} :
          cache \in {NewLRUCache(MaxSize, ttl), cacheSet(NewLRUCache(MaxSize, ttl), "k1", PemA, 0).c}
    /\ c_last = [op |-> "none"] /\ c_hist = NoHist
    /\ AlgIdle /\ ValidIdle
    /\ g_pc = "idle" /\ g_kid = "" /\ g_attempt = 0 /\ g_outcome = NoOutcome /\ fetches = 0
    /\ g_hist = [NoCalls EXCEPT !.served = [k \in DOMAIN cache.map |-> PemA]]
    /\ g_parked = EmptyBag

\* the caller receives the valid result of the first call
FirstReturned ==
    /\ v_pc = "done" /\ v_prev = NoPrev
    /\ "isValid" \in DOMAIN v_result /\ v_result.isValid
    /\ v_prev' = [kind |-> "first", token |-> v_token, result |-> v_result, at |-> v_now,
                  key |-> v_key, verdict |-> v_log[3].outcome, fetches |-> fetches,
                  keyAt |-> IF mapHas(cache, g_kid)
                            THEN cache.nodes[cache.map[g_kid]].lastAccessed ELSE NULL]
    /\ v_pc' = "idle"
    /\ v_token' = Undefined /\ v_frame' = NoFrame /\ v_key' = Undefined
    /\ v_result' = NoResult /\ v_raised' = FALSE /\ v_log' = <<>>
    /\ UNCHANGED <<v_now, algorithms, wiring, cacheVars, algVars, clientVars>>

\* validate(token) is called again with the token of the first call
ValidateAgain ==
    /\ v_pc = "idle" /\ v_prev # NoPrev
    /\ RunValidate(v_prev.token)
    /\ UNCHANGED v_prev

NextTwice ==
    \/ Tick
    \/ \E token \in Tokens : Validate(token)
    \/ \E o \in FetchOutcomes : FetchSettles(o)
    \/ RetryDelayElapses
    \/ KeySettled
    \/ \E o \in DoubleVerifyOutcomes : VerifySettled(o)
    \/ FirstReturned
    \/ ValidateAgain

SpecTwice == InitTwice /\ [][NextTwice]_vars

(***************************************************************************)
(* SpecClient: a JWKSClient on which getSigningKey is called, one call     *)
(* after the other, while the endpoint answers in any way and time passes. *)
(***************************************************************************)
Kids == {"k1", "k2"}

\* new JWKSClient(config): the cache the constructor builds
ClientCaches ==
    {LRUCacheNew([maxSize |-> Num(m), ttl |-> ttl]).value :
        m \in 1..MaxSize, ttl \in {Undefined, Num(1000)}}

InitClient ==
    /\ now = 0
    /\ cache \in ClientCaches
    /\ c_last = [op |-> "none"] /\ c_hist = NoHist
    /\ AlgIdle /\ ValidIdle /\ ClientIdle

\* getSigningKey(kid) is called
CallGetSigningKey(kid) ==
    /\ g_pc = "idle"
    /\ g_hist.calls < MaxCalls
    /\ BeginGetSigningKey(kid)
    /\ UNCHANGED <<g_parked, now, c_last, c_hist, algVars, validVars>>

\* the caller takes the settled promise's outcome
ClientReturns ==
    /\ g_pc = "settled"
    /\ g_pc' = "idle"
    /\ g_kid' = "" /\ g_attempt' = 0 /\ g_outcome' = NoOutcome
    /\ g_hist' = [NoCalls EXCEPT !.calls = g_hist.calls, !.served = g_hist.served]
    /\ UNCHANGED <<fetches, g_parked, cache, now, c_last, c_hist, algVars, validVars>>

NextClient ==
    \/ Tick
    \/ \E kid \in Kids : CallGetSigningKey(kid)
    \/ \E o \in FetchOutcomes : FetchSettles(o)
    \/ RetryDelayElapses
    \/ ClientReturns

SpecClient == InitClient /\ [][NextClient]_vars

\* every fetch(jwksUri) promise settles and every retry timer fires
SpecClientFair ==
    /\ SpecClient
    /\ WF_vars(\E o \in FetchOutcomes : FetchSettles(o))
    /\ WF_vars(RetryDelayElapses)

(***************************************************************************)
(* SpecConc: getSigningKey calls on one JWKSClient that overlap: a call is *)
(* made while others are suspended at an await, and the suspended calls    *)
(* resume in any order.  g_pc, g_kid, g_attempt, g_outcome and the call's  *)
(* part of g_hist are the frame of the call that ran last; g_parked holds  *)
(* the bag of the frames of the others.                                    *)
(***************************************************************************)
\* the frame of the call that ran last
Frame ==
    [pc |-> g_pc, kid |-> g_kid, attempt |-> g_attempt, outcome |-> g_outcome,
     live |-> g_hist.live, trace |-> g_hist.trace,
     failure |-> g_hist.failure, body |-> g_hist.body]

\* the number of fetches a call with this trace has issued
Issued(trace) == Cardinality({i \in 1..Len(trace) : trace[i] = "fetch"})

\* the frame f becomes the one the next step belongs to
Load(f) ==
    /\ g_pc' = f.pc /\ g_kid' = f.kid /\ g_attempt' = f.attempt /\ g_outcome' = f.outcome
    /\ g_hist' = [g_hist EXCEPT !.live = f.live, !.before = fetches - Issued(f.trace),
                                !.trace = f.trace, !.failure = f.failure, !.body = f.body]

\* how one fetch(jwksUri) attempt of overlapping calls can end
ConcOutcomes ==
    {Ok([keys |-> <<KeyA, KeyC>>]), Ok([keys |-> <<KeyB, KeyWeak>>]),
     Throw(Error(Msg("fetch failed", <<>>)))}

InitConc ==
    /\ now = 0
    /\ cache \in {c \in ClientCaches : c.ttl = Undefined}
    /\ c_last = [op |-> "none"] /\ c_hist = NoHist
    /\ AlgIdle /\ ValidIdle /\ ClientIdle

\* getSigningKey(kid) is called while the call that ran last is suspended or has settled
CallConcurrently(kid) ==
    /\ g_pc # "idle"
    /\ g_hist.calls < MaxCalls
    /\ BagCardinality(g_parked) + 1 < MaxFlight
    /\ g_parked' = g_parked (+) SetToBag({Frame})
    /\ BeginGetSigningKey(kid)
    /\ UNCHANGED <<now, c_last, c_hist, algVars, validVars>>

\* the event loop turns to another call in flight
Switch(f) ==
    /\ BagIn(f, g_parked)
    /\ Load(f)
    /\ g_parked' = IF g_pc = "idle" THEN g_parked (-) SetToBag({f})
                   ELSE (g_parked (-) SetToBag({f})) (+) SetToBag({Frame})
    /\ UNCHANGED <<fetches, cache, now, c_last, c_hist, algVars, validVars>>

\* the clear() calls made so far
Clears == IF c_last.op = "clear" THEN c_last.n ELSE 0

\* client.clear() is called while a call is suspended in fetchJwksWithRetry
ClientClear ==
    /\ g_pc \in {"fetching", "delay"}
    /\ Clears < MaxClears
    /\ cache' = cacheClear(cache).c
    /\ c_last' = [op |-> "clear", n |-> Clears + 1]
    /\ g_hist' = [g_hist EXCEPT !.served = Served(cacheClear(cache).c, g_kid, NoOutcome)]
    /\ UNCHANGED <<g_pc, g_kid, g_attempt, g_outcome, fetches, g_parked, now, c_hist,
                   algVars, validVars>>

NextConc ==
    \/ \E kid \in Kids : CallGetSigningKey(kid)
    \/ \E kid \in Kids : CallConcurrently(kid)
    \/ \E f \in BagToSet(g_parked) : Switch(f)
    \/ \E o \in ConcOutcomes : FetchSettles(o)
    \/ RetryDelayElapses
    \/ ClientReturns

SpecConc == InitConc /\ [][NextConc]_vars

\* SpecClear: the overlapping calls of SpecConc, and clear() called between their steps
NextClear ==
    \/ NextConc
    \/ ClientClear

SpecClear == InitConc /\ [][NextClear]_vars

(***************************************************************************)
(* SpecTwin: a linked-list LRUCache and a Map-based LRUCache built from    *)
(* the same options, without ttl, and given the same operations, one at a  *)
(* time; the clock advances after each operation.  c_last is the last      *)
(* operation with what each cache returned.                                *)
(***************************************************************************)
InitTwin ==
    /\ now = 0
    /\ \E m \in 1..MaxSize :
          /\ cache = LRUCacheNew([maxSize |-> Num(m), ttl |-> Undefined]).value
          /\ m_cache = TwinLRUCache([maxSize |-> m, ttl |-> Undefined])
    /\ c_last = [op |-> "none"] /\ c_hist = NoHist
    /\ a_alg = Undefined /\ a_allowed = NotArray /\ a_done = FALSE /\ a_result = FALSE
    /\ p_call = NoCall
    /\ ValidIdle /\ ClientIdle

\* the operation is made on both caches at time now, then the clock advances
TwinStep(op, key, list, twin) ==
    /\ now < MaxOps
    /\ cache' = list.c
    /\ m_cache' = twin.c
    /\ c_last' = [op |-> op, key |-> key, r |-> list.r, rTwin |-> twin.r]
    /\ now' = now + 1
    /\ UNCHANGED <<c_hist, a_alg, a_allowed, a_done, a_result, p_call, validVars, clientVars>>

TwinSet(k, v) == TwinStep("set", k, cacheSet(cache, k, v, now), twinSet(m_cache, k, v, now))
TwinGet(k) == TwinStep("get", k, cacheGet(cache, k, now), twinGet(m_cache, k, now))
TwinHas(k) == TwinStep("has", k, cacheHas(cache, k, now), twinHas(m_cache, k, now))
TwinDelete(k) == TwinStep("delete", k, cacheDelete(cache, k), twinDelete(m_cache, k))
TwinClear == TwinStep("clear", "", cacheClear(cache), twinClear(m_cache))

NextTwin ==
    \/ \E k \in Keys, v \in Values : TwinSet(k, v)
    \/ \E k \in Keys : TwinGet(k)
    \/ \E k \in Keys : TwinHas(k)
    \/ \E k \in Keys : TwinDelete(k)
    \/ TwinClear

SpecTwin == InitTwin /\ [][NextTwin]_vars

(***************************************************************************)
(* SpecCalls: the synchronous functions, each applied to every input:      *)
(* extractBearerToken, the validator's constructor, encodeLength and       *)
(* createRSAPublicKeyDER.                                                  *)
(***************************************************************************)
Chars(w) ==
    CASE w = "Bearer abc"   -> BEARER \o <<"a", "b", "c">>
      [] w = "Bearer "      -> BEARER
      [] w = "Bearer  "     -> BEARER \o <<" ">>
      [] w = "Bearer a b"   -> BEARER \o <<"a", " ", "b">>
      [] w = "Bearer"       -> <<"B", "e", "a", "r", "e", "r">>
      [] w = "Bearer\tabc"  -> <<"B", "e", "a", "r", "e", "r", "\t", "a", "b", "c">>
      [] w = "bearer abc"   -> <<"b", "e", "a", "r", "e", "r", " ", "a", "b", "c">>
      [] w = "BEARER abc"   -> <<"B", "E", "A", "R", "E", "R", " ", "a", "b", "c">>
      [] w = " Bearer abc"  -> <<" ">> \o BEARER \o <<"a", "b", "c">>
      [] w = "Basic abc"    -> <<"B", "a", "s", "i", "c", " ", "a", "b", "c">>
      [] w = "abc"          -> <<"a", "b", "c">>
      [] w = " "            -> <<" ">>
      [] w = " \t"          -> <<" ", "\t">>
      [] w = ""             -> <<>>

HeaderValues ==
    {Str(Chars(w)) : w \in {"Bearer abc", "Bearer ", "Bearer  ", "Bearer a b", "Bearer",
                            "Bearer\tabc", "bearer abc", "BEARER abc", " Bearer abc",
                            "Basic abc", "abc", " ", " \t", ""}}

\* the authorizationHeader argument: string | string[] | null | undefined
Headers ==
    {Undefined, Null} \cup HeaderValues \cup {Arr(l) : l \in SeqsUpTo(HeaderValues, MaxHeaders)}

\* the constructor's arguments
CtorArgs ==
    {[jwksClient |-> c, issuer |-> i, algorithms |-> a] :
        c \in {Object([jwksUri |-> Str("https://app.example/jwks")]), Null, Undefined},
        i \in {Str(Chars("abc")), Str(Chars(" Bearer abc")), Str(Chars("")), Str(Chars(" \t")),
               Undefined, Null},
        a \in (AllowLists \ {NotArray}) \cup {Undefined, Null}}

\* lengths handed to encodeLength
Lengths ==
    0..300 \cup {1000}
    \cup {256 ^ k + d : k \in 1..MaxLenBytes, d \in {0 - 1, 0, 1}}
    \cup {128 * 256 ^ (k - 1) + d : k \in 1..MaxLenBytes, d \in {0 - 1, 0}}

\* byte strings handed to createRSAPublicKeyDER
ModulusLens == 0..3 \cup {128 * k + d : k \in 1..MaxLenBytes, d \in (0 - 18)..4}
Moduli == {Modulus(len, first) : len \in ModulusLens, first \in {0, 1, 127, 128, 255}}
Exponents == {<<>>, <<3>>, <<128>>, <<0, 1>>, Exponent}

PureCalls ==
    {[fn |-> "extractBearerToken", arg |-> h] : h \in Headers}
    \cup {[fn |-> "constructor", arg |-> a] : a \in CtorArgs}
    \cup {[fn |-> "encodeLength", arg |-> l] : l \in Lengths}
    \cup {[fn |-> "createRSAPublicKeyDER", arg |-> [n |-> n, e |-> e]] : n \in Moduli, e \in Exponents}
    \cup {[fn |-> "encodeInteger", arg |-> b] : b \in Moduli \cup Exponents}

InitCalls ==
    /\ p_call \in {[fn |-> c.fn, arg |-> c.arg, done |-> FALSE, result |-> NoOutcome] : c \in PureCalls}
    /\ m_cache = NoTwin
    /\ a_alg = Undefined /\ a_allowed = NotArray /\ a_done = FALSE /\ a_result = FALSE
    /\ CacheIdle /\ ValidIdle /\ ClientIdle

Returns(fn, result) ==
    /\ p_call.fn = fn /\ ~p_call.done
    /\ p_call' = [p_call EXCEPT !.done = TRUE, !.result = result]
    /\ UNCHANGED <<a_alg, a_allowed, a_done, a_result, m_cache, cacheVars, validVars, clientVars>>

CallExtractBearerToken ==
    Returns("extractBearerToken", extractBearerToken(p_call.arg))

CallConstructor ==
    Returns("constructor",
            WristbandJwtValidatorNew(p_call.arg.jwksClient, p_call.arg.issuer, p_call.arg.algorithms))

CallEncodeLength ==
    Returns("encodeLength", Ok(encodeLength(p_call.arg)))

CallCreateRSAPublicKeyDER ==
    Returns("createRSAPublicKeyDER", Ok(createRSAPublicKeyDER(p_call.arg.n, p_call.arg.e)))

CallEncodeInteger ==
    Returns("encodeInteger", Ok(encodeInteger(p_call.arg)))

NextCalls ==
    \/ CallExtractBearerToken
    \/ CallEncodeInteger
    \/ CallConstructor
    \/ CallEncodeLength
    \/ CallCreateRSAPublicKeyDER

SpecCalls == InitCalls /\ [][NextCalls]_vars

(***************************************************************************)
(* Properties                                                              *)
(***************************************************************************)
\* Reading a token as the specification describes it
Dots(items) == {i \in 1..Len(items) : items[i] = DOT}
ThreeSegments(token) == token.t = "string" /\ Cardinality(Dots(token.items)) = 2
FirstDot(items) == CHOOSE i \in Dots(items) : \A j \in Dots(items) : i <= j
LastDot(items)  == CHOOSE i \in Dots(items) : \A j \in Dots(items) : j <= i
HeaderSegment(token)    == SubSeq(token.items, 1, FirstDot(token.items) - 1)
PayloadSegment(token)   == SubSeq(token.items, FirstDot(token.items) + 1, LastDot(token.items) - 1)
SignatureSegment(token) == SubSeq(token.items, LastDot(token.items) + 1, Len(token.items))

\* the segment is the encoding of a JSON object
IsObjectSegment(seg) == Len(seg) = 1 /\ seg[1].chunk = "json" /\ seg[1].value.t = "object"
WellFormed(token) ==
    /\ ThreeSegments(token)
    /\ IsObjectSegment(HeaderSegment(token))
    /\ IsObjectSegment(PayloadSegment(token))
HeaderOf(token)  == HeaderSegment(token)[1].value.f
PayloadOf(token) == PayloadSegment(token)[1].value.f

NonBlank(s) == \E i \in 1..Len(s) : ~IsSpace(s[i])

\* the allowlist rule as the specification states it
AlgorithmAllowed(alg, allowed) ==
    /\ IsString(alg)
    /\ NonBlank(alg.s)
    /\ toLowerCase(alg.s) # NONE
    /\ allowed.t = "array"
    /\ \E i \in 1..Len(allowed.items) :
          /\ IsString(allowed.items[i])
          /\ toLowerCase(allowed.items[i].s) = toLowerCase(alg.s)

IsRS256(alg) == IsString(alg) /\ toLowerCase(alg.s) = toLowerCase(RS256)

Done == v_pc = "done"
HasResult == "isValid" \in DOMAIN v_result
ResultValid == HasResult /\ v_result.isValid
ResultInvalidWith(text) ==
    HasResult /\ ~v_result.isValid /\ "errorMessage" \in DOMAIN v_result
    /\ v_result.errorMessage.text = text

\* the steps before the expiration step pass
PassesThroughIssuer(token) ==
    /\ WellFormed(token)
    /\ AlgorithmAllowed(HeaderOf(token).alg, algorithms)
    /\ PayloadOf(token).iss = Str(Issuer)

\* the expiration and not-before rules as the specification states them
ExpirationFails(token, t) == PayloadOf(token).exp.t = "number" /\ t >= PayloadOf(token).exp.n * 1000
NotBeforeFails(token, t)  == PayloadOf(token).nbf.t = "number" /\ t < PayloadOf(token).nbf.n * 1000

\* C1: validate returns isValid = true only if the token has three segments, alg is RS256
\* (any case), iss is the configured issuer, kid is present, getSigningKey(kid) returned a
\* key, and the signature capability returned true for (header.payload, signature, that
\* key); the payload returned is the decoded payload segment.
C1_ValidOnlyIfAllChecksHold ==
    (Done /\ ResultValid) =>
        /\ WellFormed(v_token)
        /\ IsRS256(HeaderOf(v_token).alg)
        /\ PayloadOf(v_token).iss = Str(Issuer)
        /\ Truthy(HeaderOf(v_token).kid)
        /\ Len(v_log) = 3
        /\ v_log[1] = [call |-> "getSigningKey", kid |-> HeaderOf(v_token).kid]
        /\ g_outcome.kind = "ok"
        /\ v_key = g_outcome.value
        /\ v_log[2] = [call |-> "verifyRS256Signature",
                       data |-> HeaderSegment(v_token) \o <<DOT>> \o PayloadSegment(v_token),
                       signature |-> SignatureSegment(v_token)]
        /\ v_log[3] = [call |-> "settled", outcome |-> Ok(TRUE)]
        /\ v_result.payload = PayloadSegment(v_token)[1].value

C1_Witness == Done /\ ResultValid /\ wiring = "real" /\ fetches > 0

\* C2: validateAlgorithm(alg, allowlist) is true exactly when alg is a non-blank string,
\* its lowercase form is not "none", and its lowercase form equals the lowercase form of
\* some allowlist entry; "none" in any casing is rejected for every allowlist.
C2_AllowlistRule ==
    a_done => (a_result <=> AlgorithmAllowed(a_alg, a_allowed))

C2_Witness ==
    /\ a_done /\ ~a_result
    /\ a_alg = Str(<<"N", "o", "n", "e">>)
    /\ a_allowed.t = "array" /\ includes(a_allowed.items, Str(NONE))

\* C3: validate never raises to its caller: whatever the token, the key-set client and the
\* signature capability do, the call ends in a ValidationResult.
C3_NeverRaises == Done => (~v_raised /\ HasResult)

C3_Witness ==
    /\ Done /\ HasResult /\ Len(v_log) = 3
    /\ v_log[3].outcome.kind = "throw"

\* C4: a returned ValidationResult carries a payload iff isValid is true and an
\* errorMessage iff isValid is false.
C4_PayloadIffValid ==
    (Done /\ HasResult) =>
        /\ ("payload" \in DOMAIN v_result) <=> v_result.isValid
        /\ ("errorMessage" \in DOMAIN v_result) <=> ~v_result.isValid

C4_Witness == Done /\ ResultInvalidWith("Invalid signature")

KidMissing(token) == ~(HeaderOf(token).kid.t = "string" /\ HeaderOf(token).kid.s # "")

\* the message of the first step of section 4.3 a token fails at time t, "none" if it
\* passes steps 1 to 8
FirstFailingStep(token, t) ==
    IF token.t \in {"undefined", "null"} \/ (token.t = "string" /\ token.items = <<>>)
    THEN "No token provided"
    ELSE IF ~ThreeSegments(token) THEN "Invalid JWT format"
    ELSE IF ~WellFormed(token) THEN "Invalid JWT encoding"
    ELSE IF ~AlgorithmAllowed(HeaderOf(token).alg, algorithms)
    THEN "Algorithm not allowed. Expected one of"
    ELSE IF PayloadOf(token).iss # Str(Issuer) THEN "Invalid issuer"
    ELSE IF ExpirationFails(token, t) THEN "Token has expired"
    ELSE IF NotBeforeFails(token, t) THEN "Token not yet valid"
    ELSE IF KidMissing(token) THEN "Token header missing kid (key ID)"
    ELSE "none"

\* C5: the steps run in the fixed order and the errorMessage returned is that of the
\* earliest step the token fails (stated for tokens whose header and payload are JSON
\* objects).
C5_EarliestFailureReported ==
    (Done /\ WellFormed(v_token) /\ FirstFailingStep(v_token, v_now) # "none") =>
        ResultInvalidWith(FirstFailingStep(v_token, v_now))

\* C6: the key-set client is asked for a key, and a fetch is issued, only for a token that
\* passes the algorithm, issuer, expiration, not-before and kid steps; the signature
\* capability is invoked only after the key was obtained.
C6_KeyRequestedOnlyAfterChecks ==
    /\ (v_log # <<>> \/ fetches > 0) => FirstFailingStep(v_token, v_now) = "none"
    /\ Len(v_log) >= 2 => (g_outcome.kind = "ok" /\ v_key = g_outcome.value)

\* C7: a token that passes the format, decoding, algorithm and issuer steps and carries a
\* numeric exp (0 included) is rejected with "Token has expired" whenever now >= exp * 1000.
C7_ExpiredRejected ==
    (Done /\ PassesThroughIssuer(v_token) /\ ExpirationFails(v_token, v_now)) =>
        ResultInvalidWith("Token has expired")

\* C8: a token that passes the steps before the not-before step and carries nbf is rejected
\* with "Token not yet valid" exactly when now < nbf * 1000; at now = nbf * 1000 it passes.
C8_NotBeforeRule ==
    (/\ Done
     /\ PassesThroughIssuer(v_token)
     /\ ~ExpirationFails(v_token, v_now)
     /\ PayloadOf(v_token).nbf.t = "number") =>
        (ResultInvalidWith("Token not yet valid") <=> v_now < PayloadOf(v_token).nbf.n * 1000)

C8_Witness ==
    /\ Done
    /\ PassesThroughIssuer(v_token)
    /\ ~ExpirationFails(v_token, v_now)
    /\ PayloadOf(v_token).nbf = Num(1)
    /\ v_now = 1000
    /\ ~ResultInvalidWith("Token not yet valid")

\* C9: when getSigningKey raises, the result is Invalid with "Failed to get signing key: "
\* followed by the Error's message, or by "Unknown error" for a non-Error value, and the
\* signature capability is not invoked.
C9_KeyFailureWrapped ==
    (Done /\ g_outcome.kind = "throw") =>
        /\ ResultInvalidWith("Failed to get signing key: ")
        /\ v_result.errorMessage.args =
              <<IF g_outcome.error.t = "Error" THEN g_outcome.error.message
                ELSE Msg("Unknown error", <<>>)>>
        /\ Len(v_log) = 1

C9_Witness == Done /\ g_outcome.kind = "throw" /\ g_outcome.error.t # "Error"

\* C10: after every set, get, has, delete and clear on a cache constructed with maxSize M,
\* size() <= M and no two entries share a key.
C10_SizeBounded ==
    /\ cacheSize(cache) <= cache.maxSize
    /\ \A i, j \in (DOMAIN cache.nodes) \ {HEAD, TAIL} :
          i # j => cache.nodes[i].key # cache.nodes[j].key

C10_Witness ==
    /\ c_last.op = "set" /\ c_last.inserted
    /\ c_last.sizeBefore = cache.maxSize
    /\ cacheSize(cache) = cache.maxSize

\* the keys of the recency list, from the node after head to the node before tail
RECURSIVE ListFrom(_, _)
ListFrom(c, node) ==
    IF node = TAIL \/ node = NULL THEN <<>>
    ELSE <<c.nodes[node].key>> \o ListFrom(c, c.nodes[node].next)

Order(c) == ListFrom(c, c.nodes[HEAD].next)

Resident(k) == cache # NoCache /\ mapHas(cache, k)
StoredValue(c, k) == c.nodes[c.map[k]].value
LastAccessed(c, k) == c.nodes[c.map[k]].lastAccessed

\* C11: on a cache without ttl, after every operation the resident keys are exactly the
\* min(maxSize, n) most recently touched distinct keys (a touch is a set or a get that hit),
\* and the recency list holds them in that order, so that the entry an eviction removes
\* (the one before tail) is the least recently touched.
C11_ResidentAreMostRecent ==
    (cache # NoCache /\ cache.ttl = Undefined) =>
        /\ Order(cache) = c_hist.touched
        /\ DOMAIN cache.map = {c_hist.touched[i] : i \in 1..Len(c_hist.touched)}
        /\ cacheSize(cache) = Len(c_hist.touched)

C11_Witness ==
    /\ cache # NoCache /\ cache.ttl = Undefined /\ cache.maxSize = 2
    /\ c_last.op = "set" /\ c_last.inserted /\ c_last.sizeBefore = 2
    /\ c_hist.touched = <<c_last.key, "">>

C14_HasIsAPeek ==
    (/\ c_last.op = "has"
     /\ c_last.age >= 0
     /\ Truthy(cache.ttl) => c_last.age <= cache.ttl.n) =>
        /\ c_last.r = TRUE
        /\ cache = c_last.before

C14_Witness ==
    /\ c_last.op = "has" /\ c_last.r = TRUE /\ c_last.age > 0
    /\ Truthy(cache.ttl)
    /\ cacheSize(cache) = 2
    /\ Order(cache)[2] = c_last.key
    /\ LastAccessed(cache, c_last.key) < LastAccessed(cache, Order(cache)[1])

TtlSupplied(options) == options.ttl.t \notin {"undefined", "null"}
PositiveInteger(v) == v.t = "number" /\ "half" \notin DOMAIN v /\ v.n > 0

C17_NoTtlNoExpiry ==
    [][(cache # NoCache /\ ~Truthy(cache.ttl)) =>
        /\ (c_last'.op = "get" /\ c_last'.age >= 0) => c_last'.r # Undefined
        /\ (c_last'.op = "has" /\ c_last'.age >= 0) => c_last'.r = TRUE
        /\ \A k \in DOMAIN cache.map :
              k \notin DOMAIN cache'.map =>
                  \/ c_last'.op = "delete" /\ CacheDelete(k)
                  \/ c_last'.op = "clear" /\ CacheClear
                  \/ /\ c_last'.op = "set"
                     /\ cacheSize(cache) = cache.maxSize
                     /\ Order(cache)[cacheSize(cache)] = k
                     /\ \E k2 \in Keys \ DOMAIN cache.map, v \in Values : CacheSet(k2, v)]_vars

C17_Witness ==
    /\ cache # NoCache /\ cache.ttl = Undefined
    /\ c_last.op = "get" /\ c_last.age = MaxTime
    /\ c_last.r # Undefined

\* reading the trace of the current getSigningKey call
Settled == g_pc = "settled"
Count(t, ev) == Cardinality({i \in 1..Len(t) : t[i] = ev})
Last(t) == t[Len(t)]
IsPrefix(t, u) == Len(t) <= Len(u) /\ t = SubSeq(u, 1, Len(t))

\* n attempts that all fail, a delay between each two
RECURSIVE AllFail(_)
AllFail(n) == IF n = 1 THEN <<"fetch", "fail">> ELSE AllFail(n - 1) \o <<"delay", "fetch", "fail">>

IsFetchError(outcome) ==
    outcome.kind = "throw" /\ outcome.error.t = "Error"
    /\ outcome.error.message.text = "Failed to fetch JWKS after attempts"

\* C18: a getSigningKey(kid) call made while kid is resident and unexpired settles with the
\* cached key, which is the key returned by the call that stored the entry, and issues no
\* fetch.
C18_HitServesCachedKey ==
    (wiring = "real" /\ g_pc # "idle" /\ g_hist.live) =>
        /\ g_hist.trace = <<>>
        /\ fetches = g_hist.before
        /\ Settled
        /\ g_kid \in DOMAIN g_hist.served
        /\ g_outcome = Ok(g_hist.served[g_kid])

C18_Witness ==
    /\ Settled /\ g_hist.live /\ g_hist.calls = 2
    /\ Truthy(cache.ttl) /\ now = cache.ttl.n
    /\ fetches = 3

KeyRejections ==
    {"Unable to find a signing key that matches", "Only RSA keys are supported",
     "Invalid JWK: missing n or e parameters", "RSA key too weak",
     "TypeError: Cannot read properties of undefined"}

PublishedKeys(kid) ==
    {jwk \in UNION {{b.keys[i] : i \in 1..Len(b.keys)} : b \in {x \in Bodies : "keys" \in DOMAIN x}} :
        jwk.kid = kid}

Present(v) == v.t = "string" /\ v.s # ""

\* value is the PEM of a published RSA JWK of that kid with n and e and 256 bytes or more
EncodesCheckedKey(kid, value) ==
    \E jwk \in PublishedKeys(kid) :
        /\ jwk.kty = "RSA"
        /\ Present(jwk.n) /\ Present(jwk.e)
        /\ Len(jwk.n.bytes) * 8 >= 2048
        /\ value = Pem(createRSAPublicKeyDER(jwk.n.bytes, jwk.e.bytes))

RECURSIVE BitLength(_)
BitLength(bytes) ==
    IF bytes = <<>> THEN 0
    ELSE IF bytes[1] = 0 THEN BitLength(Tail(bytes))
    ELSE 8 * (Len(bytes) - 1) + (CHOOSE k \in 1..8 : 2 ^ (k - 1) <= bytes[1] /\ bytes[1] < 2 ^ k)

\* the call has fetched a key set
Fetched == Settled /\ g_hist.trace # <<>> /\ Last(g_hist.trace) = "ok" /\ "keys" \in DOMAIN g_hist.body

ErrorText(outcome) == IF outcome.kind = "throw" THEN outcome.error.message.text ELSE "none"

\* the rule list of the claim, with the weak-key rule given by Weak
FirstRule(kid, keys, Weak(_)) ==
    LET i == find(keys, kid) IN
    IF i = 0 THEN "Unable to find a signing key that matches"
    ELSE IF keys[i].kty # "RSA" THEN "Only RSA keys are supported"
    ELSE IF ~Present(keys[i].n) \/ ~Present(keys[i].e) THEN "Invalid JWK: missing n or e parameters"
    ELSE IF Weak(keys[i].n.bytes) THEN "RSA key too weak"
    ELSE "none"

FewerBits(bytes)  == BitLength(bytes) < 2048
FewerBytes(bytes) == Len(bytes) < 256

Classified(Weak(_)) ==
    Fetched =>
        LET rule == FirstRule(g_kid, g_hist.body.keys, Weak) IN
        /\ ErrorText(g_outcome) = rule
        /\ rule = "Unable to find a signing key that matches" => g_outcome.error.message.args = <<g_kid>>
        /\ rule = "none" =>
              LET jwk == g_hist.body.keys[find(g_hist.body.keys, g_kid)] IN
              /\ g_outcome = Ok(Pem(createRSAPublicKeyDER(jwk.n.bytes, jwk.e.bytes)))
              /\ mapHas(cache, g_kid)
              /\ StoredValue(cache, g_kid) = g_outcome.value

FoundRsa ==
    /\ Fetched
    /\ find(g_hist.body.keys, g_kid) # 0
    /\ LET jwk == g_hist.body.keys[find(g_hist.body.keys, g_kid)] IN
       jwk.kty = "RSA" /\ Present(jwk.n) /\ Present(jwk.e)

FoundModulus == g_hist.body.keys[find(g_hist.body.keys, g_kid)].n.bytes

StrengthRule(Weak(_)) ==
    FoundRsa =>
        IF Weak(FoundModulus)
        THEN ErrorText(g_outcome) = "RSA key too weak" /\ ~mapHas(cache, g_kid)
        ELSE g_outcome.kind = "ok" /\ mapHas(cache, g_kid)

SecondDone == Done /\ v_prev # NoPrev

\* C24 as stated: the second call of a valid token returns what the first returned, and
\* both together issue at most one fetch.
C24_TwiceIdentical ==
    SecondDone => (~v_raised /\ v_result = v_prev.result /\ fetches <= 1)

\* C24 amended: when the second call is made before the token's exp and, if the cache has
\* a ttl, no more than ttl after the key was last read or stored, it returns what the first
\* returned and issues no fetch; the first call issued at most 3 fetch attempts.
C24_TwiceIdenticalWhileFresh ==
    (/\ SecondDone
     /\ ~ExpirationFails(v_token, v_now)
     /\ Truthy(cache.ttl) => v_now - v_prev.keyAt <= cache.ttl.n) =>
        /\ ~v_raised /\ v_result = v_prev.result
        /\ fetches = v_prev.fetches
        /\ v_prev.fetches <= 3

C24_Witness ==
    /\ SecondDone /\ ResultValid
    /\ v_token = v_prev.token
    /\ Truthy(cache.ttl) /\ v_now - v_prev.keyAt = cache.ttl.n
    /\ PayloadOf(v_token).exp = Num(2)
    /\ fetches = 3

\* the getSigningKey calls in flight: the one that ran last and the others
InFlight == IF g_pc = "idle" THEN g_parked ELSE g_parked (+) SetToBag({Frame})
Frames == BagToSet(InFlight)

RECURSIVE IssuedByAll(_)
IssuedByAll(fs) ==
    IF fs = {} THEN 0
    ELSE LET f == CHOOSE x \in fs : TRUE IN
         CopiesIn(f, InFlight) * Issued(f.trace) + IssuedByAll(fs \ {f})

Completed(f) == f.pc = "settled" /\ f.trace # <<>> /\ Last(f.trace) = "ok"

Multiplicity(seq, k) == Cardinality({i \in 1..Len(seq) : seq[i] = k})

\* C26: two calls in flight for the same kid that completed with the same key set have
\* settled alike; no kid ever has two nodes in the cache; and when all calls made so far
\* are overlapping calls for one kid that received the same key set and a key, the cache
\* holds that kid's entry once, with the key every caller got.
C26_SameKeyOneEntry ==
    /\ \A f1, f2 \in Frames :
          (f1.kid = f2.kid /\ Completed(f1) /\ Completed(f2) /\ f1.body = f2.body) =>
              f1.outcome = f2.outcome
    /\ \A k \in Kids : Multiplicity(Order(cache), k) <= 1
    /\ (/\ BagCardinality(InFlight) = g_hist.calls
        /\ g_hist.calls >= 2
        /\ \A f \in Frames : f.kid = g_kid /\ Completed(f) /\ f.body = g_hist.body
        /\ g_outcome.kind = "ok") =>
          /\ \A f \in Frames : f.outcome = g_outcome
          /\ Multiplicity(Order(cache), g_kid) = 1
          /\ mapHas(cache, g_kid)
          /\ StoredValue(cache, g_kid) = g_outcome.value
          /\ cacheSize(cache) = 1

C26_Witness ==
    /\ g_hist.calls = 2 /\ fetches = 2
    /\ g_pc = "settled" /\ g_kid = "k1" /\ g_hist.trace = <<"fetch", "ok">>
    /\ g_outcome.kind = "ok"
    /\ CopiesIn(Frame, g_parked) = 1
    /\ Order(cache) = <<"k1">>

\* a call of fn has returned or thrown
Called(fn) == p_call.fn = fn /\ p_call.done

Threw(text) == p_call.result.kind = "throw" /\ p_call.result.error = Error(Msg(text, <<>>))

\* the header is one string, given bare or as the only element of an array
OneValue(h) == h.t = "string" \/ (h.t = "array" /\ Len(h.items) = 1)
TheValue(h) == IF h.t = "array" THEN h.items[1].s ELSE h.s

HasBearerPrefix(s) ==
    /\ Len(s) >= 7
    /\ s[1] = "B" /\ s[2] = "e" /\ s[3] = "a" /\ s[4] = "r" /\ s[5] = "e" /\ s[6] = "r" /\ s[7] = " "

\* C27: extractBearerToken returns t exactly for the header 'Bearer ' + t, bare or alone
\* in an array, t non-empty, and t is the header without its first 7 characters; absent,
\* empty and blank headers and the empty array give 'No authorization header provided',
\* longer arrays 'Multiple authorization headers not allowed', 'Bearer ' alone 'No token
\* provided', anything else 'Authorization header must provide "Bearer" token'.
C27_BearerExtraction ==
    Called("extractBearerToken") =>
        LET h == p_call.arg IN
        IF h.t \in {"undefined", "null"} \/ (h.t = "array" /\ Len(h.items) = 0)
        THEN Threw("No authorization header provided")
        ELSE IF ~OneValue(h)
        THEN Threw("Multiple authorization headers not allowed")
        ELSE IF ~NonBlank(TheValue(h))
        THEN Threw("No authorization header provided")
        ELSE IF ~HasBearerPrefix(TheValue(h))
        THEN Threw("Authorization header must provide \"Bearer\" token")
        ELSE IF Len(TheValue(h)) = 7
        THEN Threw("No token provided")
        ELSE /\ p_call.result.kind = "ok"
             /\ p_call.result.value.t = "string"
             /\ p_call.result.value.s # <<>>
             /\ <<"B", "e", "a", "r", "e", "r", " ">> \o p_call.result.value.s = TheValue(h)

C27_Witness ==
    /\ Called("extractBearerToken")
    /\ p_call.arg = Arr(<<Str(<<"B", "e", "a", "r", "e", "r", " ", "a", " ", "b">>)>>)
    /\ p_call.result = Ok(Str(<<"a", " ", "b">>))

\* the allowlist the constructor works with: the argument, or ['RS256'] when it is omitted
EffectiveList(a) == IF a = Undefined THEN Arr(<<Str(RS256)>>) ELSE a

OneRS256(a) ==
    /\ a.t = "array" /\ Len(a.items) = 1
    /\ IsRS256(a.items[1])

\* C28: the constructor succeeds exactly when a client is given, the issuer is a non-blank
\* string and the allowlist has one entry, RS256 in any letter case; with client and issuer
\* in order any other allowlist fails with 'Only the RS256 algorithm is supported.'; a
\* validator that was constructed lets validateAlgorithm pass RS256 only.
C28_ConstructorRule ==
    Called("constructor") =>
        LET a == p_call.arg
            clientGiven == a.jwksClient.t = "object"
            issuerGiven == a.issuer.t = "string" /\ NonBlank(a.issuer.s) IN
        /\ p_call.result.kind = "ok" <=>
              (clientGiven /\ issuerGiven /\ OneRS256(EffectiveList(a.algorithms)))
        /\ (clientGiven /\ issuerGiven /\ ~OneRS256(EffectiveList(a.algorithms))) =>
              Threw("Only the RS256 algorithm is supported.")
        /\ p_call.result.kind = "ok" =>
              \A alg \in AlgInputs :
                  validateAlgorithm(alg, p_call.result.value.algorithms) => IsRS256(alg)

C28_Witness ==
    /\ Called("constructor")
    /\ p_call.arg.algorithms = Arr(<<Str(<<"r", "s", "2", "5", "6">>)>>)
    /\ p_call.result.kind = "ok"

\* the unsigned integer a byte string stands for, highest byte first
RECURSIVE BigEndian(_)
BigEndian(bytes) ==
    IF bytes = <<>> THEN 0
    ELSE BigEndian(SubSeq(bytes, 1, Len(bytes) - 1)) * 256 + bytes[Len(bytes)]

\* reading a DER length field at the head of bytes: its value and the bytes it takes
DecodeLength(bytes) ==
    IF bytes[1] < 128 THEN [value |-> bytes[1], used |-> 1]
    ELSE [value |-> BigEndian(SubSeq(bytes, 2, 1 + (bytes[1] - 128))), used |-> 1 + (bytes[1] - 128)]

\* reading one tag-length-value element at the head of bytes
TLV(bytes) ==
    LET l == DecodeLength(Tail(bytes)) IN
    [tag     |-> bytes[1],
     length  |-> l.value,
     content |-> SubSeq(bytes, 2 + l.used, 1 + l.used + l.value),
     rest    |-> SubSeq(bytes, 2 + l.used + l.value, Len(bytes)),
     fits    |-> Len(bytes) >= 1 + l.used + l.value]

RECURSIVE StripZeros(_)
StripZeros(bytes) == IF bytes # <<>> /\ bytes[1] = 0 THEN StripZeros(Tail(bytes)) ELSE bytes

\* content is the two's-complement form of the non-negative integer that bytes stands for
IntegerIs(content, bytes) ==
    /\ content = <<>> \/ content[1] < 128
    /\ StripZeros(content) = StripZeros(bytes)

\* C29: the bytes createRSAPublicKeyDER returns parse as SubjectPublicKeyInfo: a SEQUENCE
\* of the rsaEncryption AlgorithmIdentifier and a BIT STRING with 0 unused bits that holds
\* a SEQUENCE of two INTEGERs, the modulus and the exponent as non-negative integers; each
\* length field is the number of content bytes that follow, and nothing is left over.
C29_DerRoundTrip ==
    Called("createRSAPublicKeyDER") =>
        LET outer == TLV(p_call.result.value)
            algId == TLV(outer.content)
            bits  == TLV(algId.rest)
            inner == TLV(Tail(bits.content))
            nInt  == TLV(inner.content)
            eInt  == TLV(nInt.rest) IN
        /\ outer.tag = 48 /\ outer.fits /\ outer.rest = <<>> /\ Len(outer.content) = outer.length
        /\ algId.tag = 48 /\ algId.fits /\ algId.length = 13
        /\ algId.content = <<6, 9, 42, 134, 72, 134, 247, 13, 1, 1, 1, 5, 0>>
        /\ bits.tag = 3 /\ bits.fits /\ bits.rest = <<>> /\ Len(bits.content) = bits.length
        /\ bits.content[1] = 0
        /\ inner.tag = 48 /\ inner.fits /\ inner.rest = <<>> /\ Len(inner.content) = inner.length
        /\ nInt.tag = 2 /\ nInt.fits /\ Len(nInt.content) = nInt.length
        /\ eInt.tag = 2 /\ eInt.fits /\ Len(eInt.content) = eInt.length /\ eInt.rest = <<>>
        /\ IntegerIs(nInt.content, p_call.arg.n)
        /\ IntegerIs(eInt.content, p_call.arg.e)

C29_Witness ==
    /\ Called("createRSAPublicKeyDER")
    /\ Len(p_call.arg.n) = 256 /\ p_call.arg.n[1] = 255
    /\ p_call.arg.e = <<1, 0, 1>>
    /\ Len(p_call.result.value) = 294

\* C30: encodeLength(L) is the byte L below 128; from 128 on it is 0x80 + k and then the k
\* bytes of L, highest first, none of them a leading zero; reading the field gives L back.
C30_LengthEncoding ==
    Called("encodeLength") =>
        LET L == p_call.arg
            r == p_call.result.value
            k == Len(r) - 1 IN
        /\ L < 128 => r = <<L>>
        /\ L >= 128 =>
              /\ k >= 1
              /\ r[1] = 128 + k
              /\ r[2] # 0
              /\ BigEndian(SubSeq(r, 2, k + 1)) = L
        /\ L = 200 => r = <<129, 200>>
        /\ L = 1000 => r = <<130, 3, 232>>
        /\ DecodeLength(r) = [value |-> L, used |-> Len(r)]

C30_Witness ==
    /\ Called("encodeLength")
    /\ p_call.arg = 1000
    /\ p_call.result = Ok(<<130, 3, 232>>)

\* C31: encodeInteger gives tag 0x02, the DER length of the content and the content; the
\* content is the input with one 0x00 in front exactly when the first input byte is 0x80
\* or more, and the input itself otherwise, so its first byte is always below 0x80.
C31_IntegerPadding ==
    Called("encodeInteger") =>
        LET bytes   == p_call.arg
            r       == p_call.result.value
            padded  == bytes # <<>> /\ bytes[1] >= 128
            content == IF padded THEN <<0>> \o bytes ELSE bytes
            field   == TLV(r) IN
        /\ field.tag = 2
        /\ field.fits /\ field.rest = <<>>
        /\ field.length = Len(content)
        /\ field.content = content
        /\ r = <<2>> \o encodeLength(Len(content)) \o content
        /\ content = <<>> \/ content[1] < 128

C31_Witness ==
    /\ Called("encodeInteger")
    /\ Len(p_call.arg) = 256 /\ p_call.arg[1] = 128
    /\ Len(p_call.result.value) = 261
    /\ p_call.result.value[5] = 0 /\ p_call.result.value[6] = 128

\* a getSigningKey call is inside fetchJwksWithRetry
InLoop == g_pc \in {"fetching", "delay"}

\* the call has ended with a key or with an error
Ended == g_pc = "settled" /\ g_outcome.kind \in {"ok", "throw"}

\* C32: when every fetch attempt and every delay completes, a getSigningKey call inside the
\* retry loop ends with a key or an error; it makes at most 3 fetch attempts and waits at
\* most 2 delays; and every step taken while it is in the loop keeps it in the loop, for
\* the same kid, or ends it.
C32_LoopRunsToCompletion ==
    /\ InLoop ~> Ended
    /\ [](/\ Count(g_hist.trace, "fetch") <= 3
          /\ Count(g_hist.trace, "delay") <= 2
          /\ g_attempt <= 3)
    /\ [][InLoop => /\ InLoop' \/ Ended'
                    /\ g_kid' = g_kid]_vars

C32_Witness ==
    /\ Ended
    /\ g_outcome.kind = "ok"
    /\ g_hist.trace = <<"fetch", "fail", "delay", "fetch", "fail", "delay", "fetch", "ok">>

\* the exception that left a step of the call inside the outer try, if one did: raised
\* before the first await, or by the awaited signature capability
Escaped ==
    IF v_log = <<>> THEN validateBody(v_token, algorithms, v_now)
    ELSE IF Len(v_log) = 3 THEN v_log[3].outcome
    ELSE NoOutcome

C34_UndecodableIsEncodingError ==
    (Done /\ ThreeSegments(v_token) /\ ~WellFormed(v_token)) =>
        /\ ResultInvalidWith("Invalid JWT encoding")
        /\ v_log = <<>> /\ fetches = 0

\* the nodes met following next from node, up to the tail sentinel; NULL stands for a walk
\* that left the list or did not end within fuel steps
RECURSIVE Walk(_, _, _)
Walk(c, node, fuel) ==
    IF node = TAIL THEN <<>>
    ELSE IF node = NULL \/ node \notin DOMAIN c.nodes \/ fuel = 0 THEN <<NULL>>
    ELSE <<node>> \o Walk(c, c.nodes[node].next, fuel - 1)

Chain(c) == Walk(c, c.nodes[HEAD].next, Cardinality(DOMAIN c.nodes))

\* C35: after every operation the walk from the head sentinel along next ends at the tail
\* sentinel and meets exactly the nodes of the map, each once and under its own key; prev
\* mirrors next; the list has size() nodes; the sentinels are in no map entry and stay.
C35_ListMatchesMap ==
    cache # NoCache =>
        LET ids == Chain(cache)
            n   == Len(ids) IN
        /\ \A i \in 1..n : ids[i] # NULL
        /\ \A i, j \in 1..n : ids[i] = ids[j] => i = j
        /\ {ids[i] : i \in 1..n} = {cache.map[k] : k \in DOMAIN cache.map}
        /\ \A k \in DOMAIN cache.map : cache.nodes[cache.map[k]].key = k
        /\ \A k1, k2 \in DOMAIN cache.map : cache.map[k1] = cache.map[k2] => k1 = k2
        /\ n = cacheSize(cache)
        /\ \A i \in 1..n : cache.nodes[ids[i]].prev = IF i = 1 THEN HEAD ELSE ids[i - 1]
        /\ cache.nodes[TAIL].prev = IF n = 0 THEN HEAD ELSE ids[n]
        /\ cache.nodes[HEAD].prev = NULL /\ cache.nodes[TAIL].next = NULL
        /\ {HEAD, TAIL} \subseteq DOMAIN cache.nodes
        /\ \A k \in DOMAIN cache.map : cache.map[k] \notin {HEAD, TAIL}

C35_Witness ==
    /\ cache # NoCache
    /\ c_last.op = "set" /\ c_last.key = "" /\ c_last.sizeBefore = 2
    /\ Order(cache) = <<"", "a">>

\* the entry of key k has been left alone for longer than the ttl
Expired(c, k, t) == Truthy(c.ttl) /\ t - LastAccessed(c, k) > c.ttl.n

\* C36: the recency list is ordered by non-increasing lastAccessed from head to tail; an
\* eviction by set does not remove an unexpired entry while an expired one is resident;
\* when the entry at the tail is unexpired, every resident entry is.
C36_OrderedByLastAccess ==
    /\ [](cache # NoCache =>
            LET ks == Order(cache) IN
            /\ \A i \in 1..(Len(ks) - 1) :
                  LastAccessed(cache, ks[i]) >= LastAccessed(cache, ks[i + 1])
            /\ (ks # <<>> /\ ~Expired(cache, ks[Len(ks)], now)) =>
                  \A k \in DOMAIN cache.map : ~Expired(cache, k, now))
    /\ [][(cache # NoCache /\ now' = now /\ c_last'.op = "set") =>
            \A k \in DOMAIN cache.map :
                (k \notin DOMAIN cache'.map /\ ~Expired(cache, k, now)) =>
                    \A other \in DOMAIN cache.map : ~Expired(cache, other, now)]_vars

C36_Witness ==
    /\ cache # NoCache /\ Truthy(cache.ttl)
    /\ c_last.op = "set" /\ c_last.inserted /\ c_last.sizeBefore = 2 /\ cache.maxSize = 2
    /\ c_last.at = 2
    /\ \E k \in DOMAIN cache.map : k # c_last.key /\ LastAccessed(cache, k) = 1

SettlesWithKey ==
    /\ g_pc = "fetching" /\ g_pc' = "settled" /\ g_parked' = g_parked
    /\ g_outcome'.kind = "ok"

\* the PEM of the first key of the key set with that kid
OwnKey(body, kid) ==
    LET jwk == body.keys[CHOOSE i \in 1..Len(body.keys) :
                            body.keys[i].kid = kid /\ \A j \in 1..(i - 1) : body.keys[j].kid # kid]
    IN Pem(createRSAPublicKeyDER(jwk.n.bytes, jwk.e.bytes))

C39_ClearOnlyAtItsInstant ==
    /\ [][c_last' # c_last =>
            /\ cacheSize(cache') = 0
            /\ UNCHANGED <<g_pc, g_kid, g_attempt, g_outcome, g_parked, fetches>>]_vars
    /\ [][SettlesWithKey => mapHas(cache', g_kid)]_vars

\* one call was made, clear() ran while it waited, and its key is in the cache
C39_Witness ==
    /\ c_last.op = "clear"
    /\ g_hist.calls = 1
    /\ g_pc = "settled" /\ g_hist.trace = <<"fetch", "ok">>
    /\ cacheSize(cache) = 1 /\ mapHas(cache, g_kid)

\* C40: without ttl and with a clock that advances between operations, the linked-list
\* cache and the Map-based cache hold the same keys after every operation: size() is the
\* same and so is has(k) for every key, the empty string included.
C40_SameResidentKeys ==
    m_cache # NoTwin =>
        /\ cacheSize(cache) = twinSize(m_cache)
        /\ \A k \in Keys : cacheHas(cache, k, now).r = twinHas(m_cache, k, now).r

====
